---- MODULE Spec2Model ----
(***************************************************************************)
(* Batch queue controller of the CTE upload application                     *)
(* (src/src/components/BatchUploader/BatchManager.tsx).                     *)
(*                                                                          *)
(* The React component keeps the queue in `items`; startQueue is an async   *)
(* function, so it yields at every `await`.  One action of this model is    *)
(* one synchronous block of the code: from the point where an awaited       *)
(* promise settles (or a handler is called) to the next `await`.  itemsRef  *)
(* is copied from `items` by an effect after every render, so at the start  *)
(* of a block itemsRef.current equals `items`; inside a block it is not     *)
(* refreshed, which is why look-ups read the unprimed `items`.              *)
(***************************************************************************)
EXTENDS Integers, Sequences, FiniteSets, TLC

\* ---------------------------------------------------------------- bounds
\* The behaviours explored are those within one of the Budgets below; a
\* budget limits the files selected, the startQueue invocations in flight
\* together, the handleUpdateData commands and the external calls that fail.
MaxFiles == 3
MaxRuns == 2
MaxEdits == 3
MaxFaults == 2
BatchFiles == 460   \* files offered in all to a queue that is filled to its limit

Budgets ==
    { [files |-> MaxFiles - 1, runs |-> MaxRuns, edits |-> 0, faults |-> MaxFaults - 1],
      [files |-> MaxFiles - 2, runs |-> MaxRuns, edits |-> MaxEdits, faults |-> MaxFaults],
      [files |-> MaxFiles - 1, runs |-> MaxRuns - 1, edits |-> MaxEdits, faults |-> 0],
      [files |-> MaxFiles, runs |-> MaxRuns - 1, edits |-> 0, faults |-> MaxFaults - 1] }

\* ------------------------------------------------------ program constants
MAX_BATCH_SIZE == 150
WAIT_AI == 15
WAIT_MANUAL == 2
NoBase64 == -1     \* base64: undefined
DEFAULT_ROTATION == 270

VARIABLES
    budget,      \* the budget of this behaviour (never changes)
    items,       \* useState<BatchItem[]>: the queue, in insertion order
    isRunning,   \* useState(false)
    abortRef,    \* useRef(false)
    runs,        \* the startQueue invocations in flight, by slot
    confirms,    \* the handleConfirmUpload invocations in flight, by item id
    timers,      \* pending auto-start timeouts set by handleFileSelect
    nextId,      \* ids handed out so far (crypto.randomUUID: never reused)
    edits,       \* handleUpdateData commands so far
    faults,      \* failed external calls so far
    quotaSeen,   \* history: an extraction failed with the quota error
    gated,       \* history: ids whose last extraction asked for review and
                 \* that the user has not confirmed since
    hist,        \* history of the runs in flight: eligible[r] the ids that
                 \* were queued or error when run r started, stopped the
                 \* runs in flight when stopQueue was last called, fresh
                 \* whether no startQueue was called since the last
                 \* handleFileSelect, reloaded whether the page was
                 \* reloaded after a quota error, retried the ids that
                 \* handleRetry was called for, hot the runs that have
                 \* called extractDataFromImage and not waited since,
                 \* orient[id] the angle by which the user has turned the
                 \* picture of item id away from its source file, sent[id]
                 \* the uploads of item id that have resolved (0, 1, or 2
                 \* for more than one)
    api,         \* one call of extractDataFromImage (services/api)
    image,       \* one call of processImage (imageProcessor)
    urls         \* the browser's object URLs (URL.createObjectURL and
                 \* URL.revokeObjectURL) and the preview generations in
                 \* flight: made the handles created so far, live the
                 \* handles created and not revoked, gen[id] the
                 \* convertPdfToJpeg calls of the preview effect awaited
                 \* for item id, seen the queue the effect last fired on

vars == <<budget, items, isRunning, abortRef, runs, confirms, timers, nextId, edits,
          faults, quotaSeen, gated, hist, api, image, urls>>

\* the state of the collaborators and of the browser's URL store, which no
\* step of the controller modelled without previews touches
aux == <<api, image, urls>>

RunIds == 1..MaxRuns

\* ------------------------------------------------------------------ data
\* A field of ExtractedData is a string; the model keeps whether it is empty
\* and who wrote it: "u" typed by the user, "a" returned by the AI.
\* dataEmissao is kept as the list of its '/'-separated parts (what
\* String.split('/') returns); <<>> stands for the empty string.
EmptyDate == <<>>
UserDate == <<"ud", "um", "uy">>
UserPartialDate == <<"ud">>
AIDate == <<"ad", "am", "ay">>

EmptyData ==
    [numeroDoc |-> "", serie |-> "", dataEmissao |-> EmptyDate, needsReview |-> FALSE]

\* the manual-data test of a controller that also skips the extraction once
\* a quota error was seen
QuotaFallback(d) ==
    quotaSeen \/ (d.numeroDoc # "" /\ d.dataEmissao # EmptyDate /\ d.serie # "")

\* d.numeroDoc && d.dataEmissao && d.serie  (a string is truthy when non-empty)
isManualDataFilled(d) ==
    d.numeroDoc # "" /\ d.dataEmissao # EmptyDate /\ d.serie # ""

\* extractedData.needsReview || !numeroDoc || !serie || !dataEmissao
ReviewNeeded(d) ==
    d.needsReview \/ d.numeroDoc = "" \/ d.serie = "" \/ d.dataEmissao = EmptyDate

\* const [dia, mes, ano] = d.includes('/') ? d.split('/') : ['', '', ''];
\* a part that is missing or empty is falsy and takes the default
DatePart(date, k, dflt) ==
    IF Len(date) >= 2 /\ k <= Len(date) /\ date[k] # "" THEN date[k] ELSE dflt

\* the UploadPayload built in STEP C and in handleConfirmUpload
Payload(d, b64) ==
    [ano |-> DatePart(d.dataEmissao, 3, "2025"),
     mes |-> DatePart(d.dataEmissao, 2, "01"),
     dia |-> DatePart(d.dataEmissao, 1, "01"),
     serie |-> IF d.serie = "" THEN "N/A" ELSE d.serie,
     numeroDoc |-> d.numeroDoc,
     imagemBase64 |-> b64]

NoPayload == Payload(EmptyData, NoBase64)

\* error messages ("" is undefined)
MsgReview == "Confirme os dados antes do envio."
MsgQuotaAI == "Sistema de IA sobrecarregado (Cota Excedida)."
MsgFailAI == "Falha ao processar imagem com IA."
MsgPdf == "Falha ao converter PDF."
MsgImage == "Failed to load image"
MsgUpload == "Upload failed"
MsgQuotaShown == "Cota Excedida. Preencha Manualmente."

\* a classification that recognises no quota error
isQuotaErrorNever(msg) == FALSE

\* errorMessage.toLowerCase().includes("cota") || ...includes("quota")
isQuotaError(msg) == msg = MsgQuotaAI

ActiveStatus == {"processing_image", "analyzing_ai", "uploading"}

NoItem ==
    [id |-> 0, pdf |-> FALSE, rotation |-> 0, data |-> EmptyData,
     status |-> "none", base64 |-> NoBase64, errorMessage |-> ""]

NewItem(id, pdf) ==
    [id |-> id, pdf |-> pdf, rotation |-> DEFAULT_ROTATION, data |-> EmptyData,
     status |-> "queued", base64 |-> NoBase64, errorMessage |-> ""]

Ids(its) == {its[k].id : k \in DOMAIN its}

\* its.find(i => i.id === id)
Find(its, id) ==
    IF id \in Ids(its) THEN its[CHOOSE k \in DOMAIN its : its[k].id = id] ELSE NoItem

\* setItems(prev => prev.map(i => i.id === id ? F(i) : i))
MapItem(its, id, F(_)) ==
    [k \in DOMAIN its |-> IF its[k].id = id THEN F(its[k]) ELSE its[k]]

updateItemStatus(its, id, st) ==
    MapItem(its, id, LAMBDA it : [it EXCEPT !.status = st])

\* its.filter(i => i.id !== id)
RECURSIVE Without(_, _)
Without(its, id) ==
    IF its = <<>> THEN <<>>
    ELSE IF Head(its).id = id THEN Without(Tail(its), id)
         ELSE <<Head(its)>> \o Without(Tail(its), id)

Min(S) == CHOOSE x \in S : \A y \in S : x <= y

\* ------------------------------------------------------------ startQueue
\* A slot of `runs` holds the local variables of one startQueue invocation
\* and the await it is suspended at:
\*   image      await convertPdfToJpeg / await processImage      (STEP A)
\*   ai         await extractDataFromImage                       (STEP B)
\*   manualwait await new Promise(r => setTimeout(r, 400))       (STEP B)
\*   upload     await uploadToDrive                              (STEP C)
\*   tick       await ... setTimeout(resolve, 1000)              (STEP E)
\*   cooldown   await ... setTimeout(resolve, 2000)              (catch; err is
\*              the message of the error caught)
NoRun ==
    [pc |-> "idle", queueIds |-> <<>>, i |-> 0, cur |-> NoItem, b64 |-> NoBase64,
     manual |-> FALSE, req |-> NoPayload, s |-> 0, err |-> ""]

\* a snapshot without the status filter
QueueIdsAll(its) == [k \in DOMAIN its |-> its[k].id]

\* itemsRef.current.filter(queued or error).map(i => i.id)
RECURSIVE QueueIds(_)
QueueIds(its) ==
    IF its = <<>> THEN <<>>
    ELSE IF Head(its).status \in {"queued", "error"}
         THEN <<Head(its).id>> \o QueueIds(Tail(its))
         ELSE QueueIds(Tail(its))

\* a loop that takes the last remaining id first
NextIdxLast(q, i, ref) ==
    LET S == {j \in i..Len(q) : q[j] \in Ids(ref)}
    IN IF S = {} THEN 0 ELSE CHOOSE x \in S : \A y \in S : y <= x

\* The index the for loop stops at, from iteration i on: iterations whose id
\* is not in itemsRef `continue`; 0 when the loop runs out.
NextIdx(q, i, ref) ==
    LET S == {j \in i..Len(q) : q[j] \in Ids(ref)}
    IN IF S = {} THEN 0 ELSE Min(S)

\* The head of the for loop, entered at iteration i with the queue `its`
\* (the state after the updates of this block) and itemsRef `ref`: break on
\* abortRef, skip the ids that are gone, set the next item to
\* processing_image and suspend in STEP A; or leave the loop.
LoopFrom(q, i, ref, its, abort) ==
    LET j == IF abort THEN 0 ELSE NextIdx(q, i, ref)
    IN IF j = 0
       THEN [items |-> its, run |-> NoRun, done |-> TRUE]
       ELSE [items |-> updateItemStatus(its, q[j], "processing_image"),
             run |-> [NoRun EXCEPT !.pc = "image", !.queueIds = q, !.i = j,
                                   !.cur = Find(ref, q[j])],
             done |-> FALSE]

\* the awaits of a run that are waits for a time to pass
DelayPcs == {"tick", "cooldown", "manualwait", "aidelay"}

\* hist.hot after a block of run r that leaves the slot as `run`: r is in it
\* from its call of extractDataFromImage until one of its waits is over
HotAfter(r, run) ==
    IF run.pc = "ai" /\ runs[r].pc # "ai" THEN hist.hot \cup {r}
    ELSE IF runs[r].pc \in DelayPcs THEN hist.hot \ {r}
    ELSE hist.hot

\* hist.sent with one more resolved upload of item id
OneMoreSent(id) ==
    [hist.sent EXCEPT ![id] = IF @ < 2 THEN @ + 1 ELSE @]

\* hist.sent after a block of run r that leaves the slot as `run`: the
\* uploadToDrive it awaited has resolved unless the block ends in the catch
SentAfter(r, run) ==
    IF runs[r].pc = "upload" /\ run.pc # "cooldown"
    THEN OneMoreSent(runs[r].queueIds[runs[r].i])
    ELSE hist.sent

\* What one block of a run leaves behind: the queue, the slot, and
\* setIsRunning(false) when the loop was left.
Commit(r, res) ==
    /\ items' = res.items
    /\ runs' = [runs EXCEPT ![r] = res.run]
    /\ isRunning' = IF res.done THEN FALSE ELSE isRunning
    /\ hist' = IF res.done
               THEN [hist EXCEPT !.eligible[r] = {}, !.stopped = @ \ {r},
                                 !.hot = @ \ {r}, !.sent = SentAfter(r, res.run)]
               ELSE [hist EXCEPT !.hot = HotAfter(r, res.run),
                                 !.sent = SentAfter(r, res.run)]

CurId(r) == runs[r].queueIds[runs[r].i]

FreeSlot(r) ==
    /\ runs[r].pc = "idle"
    /\ \A r2 \in RunIds : r2 < r => runs[r2].pc # "idle"
    /\ r <= budget.runs

\* the history after a start in slot r (done: the loop was left at once)
HistStart(r, done) ==
    IF done THEN [hist EXCEPT !.fresh = FALSE]
    ELSE [eligible |-> [hist.eligible EXCEPT ![r] =
                          {items[k].id : k \in
                             {n \in DOMAIN items :
                                items[n].status \in {"queued", "error"}}}],
          stopped |-> hist.stopped \ {r},
          fresh |-> FALSE,
          reloaded |-> hist.reloaded,
          retried |-> hist.retried,
          hot |-> hist.hot \ {r},
          orient |-> hist.orient,
          sent |-> hist.sent]

\* startQueue past its `if (isRunning) return`: setIsRunning(true),
\* abortRef.current = false, snapshot of the ids, first iteration.
BeginRun(r) ==
    LET res == LoopFrom(QueueIds(items), 1, items, items, FALSE)
    IN /\ items' = res.items
       /\ runs' = [runs EXCEPT ![r] = res.run]
       /\ isRunning' = ~res.done
       /\ abortRef' = FALSE
       /\ hist' = HistStart(r, res.done)

\* The "Iniciar Fila" button: rendered when !isRunning && queuedCount > 0.
StartButton(r) ==
    /\ ~isRunning
    /\ \E k \in DOMAIN items : items[k].status = "queued"
    /\ FreeSlot(r)
    /\ BeginRun(r)
    /\ UNCHANGED <<budget, aux, confirms, timers, nextId, edits, faults, quotaSeen, gated>>

\* The timeout set by handleFileSelect fires.  Its closure holds the
\* isRunning of the render in which the files were selected, and the file
\* input is disabled while isRunning, so the isRunning it tests, and the one
\* the startQueue it calls tests, is false whatever the state is by now.
AutoStartFires(r) ==
    /\ timers > 0
    /\ ~abortRef
    /\ FreeSlot(r)
    /\ timers' = timers - 1
    /\ BeginRun(r)
    /\ UNCHANGED <<budget, aux, confirms, nextId, edits, faults, quotaSeen, gated>>

AutoStartSkipped ==
    /\ timers > 0
    /\ abortRef
    /\ timers' = timers - 1
    /\ UNCHANGED <<budget, aux, hist, items, isRunning, abortRef, runs, confirms, nextId, edits, faults,
                   quotaSeen, gated>>

\* a catch outside the for loop: the error is recorded and the loop is left
CatchLeavesLoop(r, msg) ==
    [items |-> MapItem(items, CurId(r), LAMBDA it :
                  [it EXCEPT !.status = "error", !.errorMessage = msg,
                             !.base64 = NoBase64]),
     run |-> NoRun,
     done |-> TRUE]

\* catch (err): status error, the message, base64 cleared, then the 2 s wait
Catch(r, msg) ==
    [items |-> MapItem(items, CurId(r), LAMBDA it :
                  [it EXCEPT !.status = "error",
                             !.errorMessage =
                                 IF isQuotaError(msg) THEN MsgQuotaShown ELSE msg,
                             !.base64 = NoBase64]),
     run |-> [NoRun EXCEPT !.pc = "cooldown", !.queueIds = runs[r].queueIds,
                           !.i = runs[r].i, !.err = msg],
     done |-> FALSE]

\* STEP C: status uploading, the payload is built and sent
BeginUpload(r, its, d, b64, manual) ==
    [items |-> updateItemStatus(its, CurId(r), "uploading"),
     run |-> [runs[r] EXCEPT !.pc = "upload", !.b64 = b64, !.manual = manual,
                             !.req = Payload(d, b64)],
     done |-> FALSE]

\* processImage(fileToProcess, rotation): the encoded image of the source
\* file turned by `rotation`; the model keeps the angle as the image.
processImage(item) == item.rotation

\* STEP A settles.  ok: base64 saved and rotation reset, then STEP B decides
\* from currentItem (read at the head of the iteration) whether to call the AI.
ImageDone(r) ==
    /\ runs[r].pc = "image"
    /\ LET id == CurId(r)
           cur == runs[r].cur
           b64 == processImage(cur)
           saved == MapItem(items, id, LAMBDA it :
                        [it EXCEPT !.base64 = b64, !.rotation = 0])
       IN IF isManualDataFilled(cur.data)
          THEN Commit(r, [items |-> saved,
                          run |-> [runs[r] EXCEPT !.pc = "manualwait", !.b64 = b64,
                                                  !.manual = TRUE],
                          done |-> FALSE])
          ELSE Commit(r, [items |-> updateItemStatus(saved, id, "analyzing_ai"),
                          run |-> [runs[r] EXCEPT !.pc = "ai", !.b64 = b64],
                          done |-> FALSE])
    /\ UNCHANGED <<budget, aux, abortRef, confirms, timers, nextId, edits, faults, quotaSeen, gated>>

\* STEP A throws: convertPdfToJpeg (PDF files only) or processImage
ImageFails(r) ==
    /\ runs[r].pc = "image"
    /\ faults < budget.faults
    /\ faults' = faults + 1
    /\ \E msg \in {MsgImage} \cup (IF runs[r].cur.pdf THEN {MsgPdf} ELSE {}) :
           Commit(r, Catch(r, msg))
    /\ UNCHANGED <<budget, aux, abortRef, confirms, timers, nextId, edits, quotaSeen, gated>>

\* the 400 ms of the manual branch are over: STEP C with currentItem.data
ManualWaitDone(r) ==
    /\ runs[r].pc = "manualwait"
    /\ Commit(r, BeginUpload(r, items, runs[r].cur.data, runs[r].b64, TRUE))
    /\ UNCHANGED <<budget, aux, abortRef, confirms, timers, nextId, edits, faults, quotaSeen, gated>>

\* What extractDataFromImage can return (JSON.parse of the model's answer)
AIResults ==
    { [numeroDoc |-> "a", serie |-> "a", dataEmissao |-> AIDate, needsReview |-> FALSE],
      [numeroDoc |-> "a", serie |-> "a", dataEmissao |-> AIDate, needsReview |-> TRUE],
      [numeroDoc |-> "", serie |-> "a", dataEmissao |-> AIDate, needsReview |-> FALSE],
      [numeroDoc |-> "a", serie |-> "", dataEmissao |-> AIDate, needsReview |-> FALSE],
      [numeroDoc |-> "a", serie |-> "a", dataEmissao |-> EmptyDate, needsReview |-> FALSE] }

\* extractDataFromImage returns d: the data is stored; STEP B.5 parks the item
\* in ready and continues with the next iteration, or STEP C uploads.
AIDone(r) ==
    /\ runs[r].pc = "ai"
    /\ \E d \in AIResults :
         LET id == CurId(r)
             stored == MapItem(items, id, LAMBDA it : [it EXCEPT !.data = d])
         IN IF ReviewNeeded(d)
            THEN /\ Commit(r, LoopFrom(runs[r].queueIds, runs[r].i + 1, items,
                              MapItem(stored, id, LAMBDA it :
                                  [it EXCEPT !.status = "ready",
                                             !.errorMessage = MsgReview]),
                              abortRef))
                 /\ gated' = IF id \in Ids(items) THEN gated \cup {id} ELSE gated
            ELSE /\ Commit(r, BeginUpload(r, stored, d, runs[r].b64, FALSE))
                 /\ gated' = gated \ {id}
    /\ UNCHANGED <<budget, aux, abortRef, confirms, timers, nextId, edits, faults, quotaSeen>>

\* extractDataFromImage throws: the quota message or the generic one
AIFails(r) ==
    /\ runs[r].pc = "ai"
    /\ faults < budget.faults
    /\ faults' = faults + 1
    /\ \E msg \in {MsgQuotaAI, MsgFailAI} :
         /\ Commit(r, Catch(r, msg))
         /\ quotaSeen' = (quotaSeen \/ isQuotaError(msg))
    /\ UNCHANGED <<budget, aux, abortRef, confirms, timers, nextId, edits, gated>>

\* a wait that is short whether or not the AI was invoked
WaitTimeShort(manual) == WAIT_MANUAL

\* const waitTime = isManualDataFilled ? 2 : 15
WaitTime(manual) == IF manual THEN WAIT_MANUAL ELSE WAIT_AI

\* STEP D and the entry of STEP E: success, base64 and message cleared; when
\* this was not the last id, the first tick of the wait unless abortRef
UploadDone(r) ==
    /\ runs[r].pc = "upload"
    /\ LET q == runs[r].queueIds
           i == runs[r].i
           done == MapItem(items, CurId(r), LAMBDA it :
                       [it EXCEPT !.status = "success", !.base64 = NoBase64,
                                  !.errorMessage = ""])
       IN IF i < Len(q) /\ ~abortRef
          THEN Commit(r, [items |-> done,
                          run |-> [NoRun EXCEPT !.pc = "tick", !.queueIds = q, !.i = i,
                                                !.s = WaitTime(runs[r].manual)],
                          done |-> FALSE])
          ELSE Commit(r, LoopFrom(q, i + 1, items, done, abortRef))
    /\ UNCHANGED <<budget, aux, abortRef, confirms, timers, nextId, edits, faults, quotaSeen, gated>>

\* uploadToDrive throws (response not ok, or the transport failed)
UploadFails(r) ==
    /\ runs[r].pc = "upload"
    /\ faults < budget.faults
    /\ faults' = faults + 1
    /\ Commit(r, Catch(r, MsgUpload))
    /\ UNCHANGED <<budget, aux, abortRef, confirms, timers, nextId, edits, quotaSeen, gated>>

\* a wait whose counter is never decremented
TickForever(r) ==
    /\ runs[r].pc = "tick"
    /\ Commit(r, [items |-> items, run |-> runs[r], done |-> FALSE])
    /\ UNCHANGED <<budget, aux, abortRef, confirms, timers, nextId, edits, faults, quotaSeen, gated>>

\* one second of STEP E is over: s--, and the loop waits again while s > 0
\* and abortRef is not set
Tick(r) ==
    /\ runs[r].pc = "tick"
    /\ IF runs[r].s - 1 > 0 /\ ~abortRef
       THEN Commit(r, [items |-> items,
                       run |-> [runs[r] EXCEPT !.s = @ - 1],
                       done |-> FALSE])
       ELSE Commit(r, LoopFrom(runs[r].queueIds, runs[r].i + 1, items, items, abortRef))
    /\ UNCHANGED <<budget, aux, abortRef, confirms, timers, nextId, edits, faults, quotaSeen, gated>>

\* the 2 s after a failure are over: next iteration
CooldownDone(r) ==
    /\ runs[r].pc = "cooldown"
    /\ Commit(r, LoopFrom(runs[r].queueIds, runs[r].i + 1, items, items, abortRef))
    /\ UNCHANGED <<budget, aux, abortRef, confirms, timers, nextId, edits, faults, quotaSeen, gated>>

\* ---------------------------------------------------------- user commands
\* A command is enabled when the control that issues it is rendered and
\* enabled (the JSX of BatchManager and of FileCard).

\* handleFileSelect with n files: the input is disabled while isRunning; the
\* batch limit; the new items; the auto-start timeout.
\* The files offered to the input, by id: PDF, image, PDF, ...
FileIsPdf(id) == id % 2 = 1

NewItems(first, n) ==
    [k \in 1..n |-> NewItem(first + k - 1, FileIsPdf(first + k - 1))]

\* a selection that is appended without the size test
handleFileSelectUnchecked(n) ==
    /\ ~isRunning
    /\ nextId + n <= budget.files
    /\ items' = items \o NewItems(nextId + 1, n)
    /\ nextId' = nextId + n
    /\ timers' = timers + 1
    /\ hist' = [hist EXCEPT !.fresh = TRUE]
    /\ UNCHANGED <<budget, aux, isRunning, abortRef, runs, confirms, edits, faults, quotaSeen, gated>>

handleFileSelect(n) ==
    /\ ~isRunning
    /\ nextId + n <= budget.files
    /\ Len(items) + n <= MAX_BATCH_SIZE
    /\ items' = items \o NewItems(nextId + 1, n)
    /\ nextId' = nextId + n
    /\ timers' = timers + 1
    /\ hist' = [hist EXCEPT !.fresh = TRUE]
    /\ UNCHANGED <<budget, aux, isRunning, abortRef, runs, confirms, edits, faults, quotaSeen, gated>>

\* handleFileSelect with n files that do not fit: the alert, and nothing else
handleFileSelectRejected(n) ==
    /\ ~isRunning
    /\ nextId + n <= budget.files
    /\ Len(items) + n > MAX_BATCH_SIZE
    /\ UNCHANGED vars

\* prev.filter(i => i.status === 'success')
OnlySuccess(its) == SelectSeq(its, LAMBDA it : it.status = "success")

\* handleClearQueue: the trash button is rendered when !isRunning and some
\* item is queued or error
handleClearQueue ==
    /\ ~isRunning
    /\ \E k \in DOMAIN items : items[k].status \in {"queued", "error"}
    /\ items' = OnlySuccess(items)
    /\ gated' = gated \cap Ids(OnlySuccess(items))
    /\ UNCHANGED <<budget, aux, hist, isRunning, abortRef, runs, confirms, timers, nextId,
                   edits, faults, quotaSeen>>

\* stopQueue: the "Pausar Fila" button is rendered while isRunning
stopQueue ==
    /\ isRunning
    /\ abortRef' = TRUE
    /\ hist' = [hist EXCEPT !.stopped = {r \in RunIds : runs[r].pc # "idle"}]
    /\ UNCHANGED <<budget, aux, items, isRunning, runs, confirms, timers, nextId, edits, faults,
                   quotaSeen, gated>>

\* FileCard: const allowEditing = !isSuccess && !isActiveProcessing
allowEditing(it) == it.status # "success" /\ it.status \notin ActiveStatus

\* handleRemove: the X button is rendered when !isActiveProcessing && !isSuccess
handleRemove(id) ==
    /\ id \in Ids(items)
    /\ allowEditing(Find(items, id))
    /\ items' = Without(items, id)
    /\ gated' = gated \ {id}
    /\ UNCHANGED <<budget, aux, hist, isRunning, abortRef, runs, confirms, timers, nextId, edits, faults,
                   quotaSeen>>

\* handleUpdateData(id, field, value): the inputs are disabled unless
\* allowEditing
handleUpdateData(id, field, value) ==
    /\ id \in Ids(items)
    /\ allowEditing(Find(items, id))
    /\ edits < budget.edits
    /\ Find(items, id).data[field] # value
    /\ items' = MapItem(items, id, LAMBDA it : [it EXCEPT !.data[field] = value])
    /\ edits' = edits + 1
    /\ UNCHANGED <<budget, aux, hist, isRunning, abortRef, runs, confirms, timers, nextId, quotaSeen,
                   gated, faults>>

\* a rotate command that turns clockwise
handleRotateClockwise(id) ==
    /\ id \in Ids(items)
    /\ allowEditing(Find(items, id))
    /\ edits < budget.edits
    /\ items' = MapItem(items, id, LAMBDA it :
                    [it EXCEPT !.rotation = (it.rotation + 90) % 360])
    /\ edits' = edits + 1
    /\ hist' = [hist EXCEPT !.orient[id] = (@ + 90) % 360]
    /\ UNCHANGED <<budget, aux, isRunning, abortRef, runs, confirms, timers, nextId,
                   faults, quotaSeen, gated>>

\* handleRotate: the button is rendered when allowEditing;
\* newRot = (currentRot + 270) % 360
handleRotate(id) ==
    /\ id \in Ids(items)
    /\ allowEditing(Find(items, id))
    /\ edits < budget.edits
    /\ items' = MapItem(items, id, LAMBDA it :
                    [it EXCEPT !.rotation = (it.rotation + 270) % 360])
    /\ edits' = edits + 1
    /\ hist' = [hist EXCEPT !.orient[id] = (@ + 270) % 360]
    /\ UNCHANGED <<budget, aux, isRunning, abortRef, runs, confirms, timers, nextId,
                   faults, quotaSeen, gated>>

\* a retry that leaves the message in place
handleRetryKeepsMessage(id) ==
    /\ id \in Ids(items)
    /\ Find(items, id).status = "error"
    /\ items' = updateItemStatus(items, id, "queued")
    /\ hist' = [hist EXCEPT !.retried = @ \cup {id}]
    /\ UNCHANGED <<budget, aux, isRunning, abortRef, runs, confirms, timers, nextId, edits, faults,
                   quotaSeen, gated>>

\* handleRetry: the button is rendered when the status is error
handleRetry(id) ==
    /\ id \in Ids(items)
    /\ Find(items, id).status = "error"
    /\ items' = MapItem(items, id, LAMBDA it :
                    [it EXCEPT !.status = "queued", !.errorMessage = ""])
    /\ hist' = [hist EXCEPT !.retried = @ \cup {id}]
    /\ UNCHANGED <<budget, aux, isRunning, abortRef, runs, confirms, timers, nextId, edits, faults,
                   quotaSeen, gated>>

\* handleConfirmUpload up to its await: the button is rendered when the
\* status is ready; a missing field ends the handler with an alert.
handleConfirmUpload(id) ==
    /\ id \in Ids(items)
    /\ Find(items, id).status = "ready"
    /\ isManualDataFilled(Find(items, id).data)
    /\ items' = updateItemStatus(items, id, "uploading")
    /\ confirms' = confirms \cup
                     {[id |-> id,
                       req |-> Payload(Find(items, id).data, Find(items, id).base64)]}
    /\ gated' = gated \ {id}
    /\ UNCHANGED <<budget, aux, hist, isRunning, abortRef, runs, timers, nextId, edits, faults, quotaSeen>>

\* its uploadToDrive resolves: success, base64 and message cleared, flag cleared
ConfirmDone(c) ==
    /\ c \in confirms
    /\ items' = MapItem(items, c.id, LAMBDA it :
                    [it EXCEPT !.status = "success", !.base64 = NoBase64,
                               !.errorMessage = "", !.data.needsReview = FALSE])
    /\ confirms' = confirms \ {c}
    /\ hist' = [hist EXCEPT !.sent = OneMoreSent(c.id)]
    /\ UNCHANGED <<budget, aux, isRunning, abortRef, runs, timers, nextId, edits, faults, quotaSeen, gated>>

\* its uploadToDrive throws: status error, base64 kept
ConfirmFails(c) ==
    /\ c \in confirms
    /\ faults < budget.faults
    /\ faults' = faults + 1
    /\ items' = MapItem(items, c.id, LAMBDA it :
                    [it EXCEPT !.status = "error", !.errorMessage = MsgUpload])
    /\ confirms' = confirms \ {c}
    /\ UNCHANGED <<budget, aux, hist, isRunning, abortRef, runs, timers, nextId, edits, quotaSeen, gated>>

\* ------------------------------------------------------------ specification
NoHist ==
    [eligible |-> [r \in RunIds |-> {}], stopped |-> {}, fresh |-> FALSE,
     reloaded |-> FALSE, retried |-> {}, hot |-> {},
     orient |-> [id \in 1..MaxFiles |-> DEFAULT_ROTATION],
     sent |-> [id \in 1..MaxFiles |-> 0]]

\* no call of extractDataFromImage / of processImage under way
NoCall == [pc |-> "none"]

NoImage == [pc |-> "none"]

\* no object URL was created and the preview effect has not fired
NoUrls == [made |-> 0, live |-> {}, gen |-> [id \in 1..MaxFiles |-> 0], seen |-> <<>>]

Init ==
    /\ budget \in Budgets
    /\ items = <<>>
    /\ isRunning = FALSE
    /\ abortRef = FALSE
    /\ runs = [r \in RunIds |-> NoRun]
    /\ confirms = {}
    /\ timers = 0
    /\ nextId = 0
    /\ edits = 0
    /\ faults = 0
    /\ quotaSeen = FALSE
    /\ gated = {}
    /\ hist = NoHist
    /\ api = NoCall
    /\ image = NoImage
    /\ urls = NoUrls

FileIds == 1..MaxFiles

Next ==
    \/ \E n \in 1..MaxFiles : handleFileSelect(n)
    \/ \E r \in RunIds : StartButton(r)
    \/ \E r \in RunIds : AutoStartFires(r)
    \/ AutoStartSkipped
    \/ \E r \in RunIds : ImageDone(r)
    \/ \E r \in RunIds : ImageFails(r)
    \/ \E r \in RunIds : ManualWaitDone(r)
    \/ \E r \in RunIds : AIDone(r)
    \/ \E r \in RunIds : AIFails(r)
    \/ \E r \in RunIds : UploadDone(r)
    \/ \E r \in RunIds : UploadFails(r)
    \/ \E r \in RunIds : Tick(r)
    \/ \E r \in RunIds : CooldownDone(r)
    \/ stopQueue
    \/ \E id \in FileIds : handleRemove(id)
    \/ handleClearQueue
    \/ \E id \in FileIds : \E v \in {"", "u"} :
           handleUpdateData(id, "numeroDoc", v) \/ handleUpdateData(id, "serie", v)
    \/ \E id \in FileIds : \E v \in {EmptyDate, UserPartialDate, UserDate} :
           handleUpdateData(id, "dataEmissao", v)
    \/ \E id \in FileIds : handleRetry(id)
    \/ \E id \in FileIds : handleConfirmUpload(id)
    \/ \E c \in confirms : ConfirmDone(c)
    \/ \E c \in confirms : ConfirmFails(c)

Spec == Init /\ [][Next]_vars

\* ------------------------------------------- the two-phase controller
\* src/unnamed/part_006: startAnalysisQueue takes the items to ready and
\* never uploads; an item can be paused.  isRunning stands for isAnalyzing.
\* The upload phase (handleUploadAllReady, handleSingleUpload) follows
\* further down.  The run slots hold the same locals as for startQueue,
\* with one more await:
\*   aidelay    await new Promise(r => setTimeout(r, AI_DELAY_MS))   (i > 0)
MsgPdfAnalysis == "Erro conv. PDF"

\* a loop head that does not look at the status
NextIdxAnyStatus(q, i, ref) ==
    LET S == {j \in i..Len(q) : q[j] \in Ids(ref)}
    IN IF S = {} THEN 0 ELSE Min(S)

\* iterations `continue` when the item is gone or paused
AnalysisNextIdx(q, i, ref) ==
    LET S == {j \in i..Len(q) :
                q[j] \in Ids(ref) /\ Find(ref, q[j]).status # "paused"}
    IN IF S = {} THEN 0 ELSE Min(S)

AnalysisLoopFrom(q, i, ref, its, abort) ==
    LET j == IF abort THEN 0 ELSE AnalysisNextIdx(q, i, ref)
    IN IF j = 0
       THEN [items |-> its, run |-> NoRun, done |-> TRUE]
       ELSE [items |-> updateItemStatus(its, q[j], "processing_image"),
             run |-> [NoRun EXCEPT !.pc = "image", !.queueIds = q, !.i = j,
                                   !.cur = Find(ref, q[j])],
             done |-> FALSE]

AnalysisBeginRun(r) ==
    LET res == AnalysisLoopFrom(QueueIds(items), 1, items, items, FALSE)
    IN /\ items' = res.items
       /\ runs' = [runs EXCEPT ![r] = res.run]
       /\ isRunning' = ~res.done
       /\ abortRef' = FALSE
       /\ hist' = HistStart(r, res.done)

\* the "Analisar" button: rendered when !isBusy && queuedCount > 0
startAnalysisQueue(r) ==
    /\ ~isRunning
    /\ ~(\E r2 \in RunIds : runs[r2].pc = "send")
    /\ \E k \in DOMAIN items : items[k].status = "queued"
    /\ FreeSlot(r)
    /\ AnalysisBeginRun(r)
    /\ UNCHANGED <<budget, aux, confirms, timers, nextId, edits, faults, quotaSeen, gated>>

\* the timeout of handleFileSelect fires (its isBusy is the captured one)
AnalysisAutoStart(r) ==
    /\ timers > 0
    /\ ~abortRef
    /\ FreeSlot(r)
    /\ timers' = timers - 1
    /\ AnalysisBeginRun(r)
    /\ UNCHANGED <<budget, aux, confirms, nextId, edits, faults, quotaSeen, gated>>

\* a step 3 that stores the data and leaves the status as it is
MarkDataOnly(its, id, d) ==
    MapItem(its, id, LAMBDA it : [it EXCEPT !.data = d, !.errorMessage = ""])

\* step 3: status ready, data, errorMessage undefined
MarkReady(its, id, d) ==
    MapItem(its, id, LAMBDA it :
        [it EXCEPT !.status = "ready", !.data = d, !.errorMessage = ""])

\* processImage resolved: base64 saved, then the pause check point, then
\* step 2 (the manual data go straight to step 3)
AnalysisImageDone(r) ==
    /\ runs[r].pc = "image"
    /\ LET id == CurId(r)
           q == runs[r].queueIds
           i == runs[r].i
           cur == runs[r].cur
           b64 == processImage(cur)
           saved == MapItem(items, id, LAMBDA it :
                        [it EXCEPT !.base64 = b64, !.rotation = 0])
       IN IF Find(items, id).status = "paused" \/ abortRef
          THEN Commit(r, AnalysisLoopFrom(q, i + 1, items,
                             updateItemStatus(saved, id, "paused"), abortRef))
          ELSE IF isManualDataFilled(cur.data)
          THEN Commit(r, AnalysisLoopFrom(q, i + 1, items,
                             MarkReady(saved, id, cur.data), abortRef))
          ELSE Commit(r, [items |-> updateItemStatus(saved, id, "analyzing_ai"),
                          run |-> [runs[r] EXCEPT
                                     !.pc = IF i > 1 THEN "aidelay" ELSE "ai",
                                     !.b64 = b64],
                          done |-> FALSE])
    /\ UNCHANGED <<budget, aux, abortRef, confirms, timers, nextId, edits, faults, quotaSeen, gated>>

\* the AI_DELAY_MS are over: extractDataFromImage is called
AnalysisDelayDone(r) ==
    /\ runs[r].pc = "aidelay"
    /\ Commit(r, [items |-> items, run |-> [runs[r] EXCEPT !.pc = "ai"], done |-> FALSE])
    /\ UNCHANGED <<budget, aux, abortRef, confirms, timers, nextId, edits, faults, quotaSeen, gated>>

\* the answers tried in the two-phase controller: a complete one and one
\* without the document number
AnalysisResults ==
    {d \in AIResults : ~d.needsReview /\ d.serie # "" /\ d.dataEmissao # EmptyDate}

\* extractDataFromImage returns d: step 3, next iteration
AnalysisAIDone(r) ==
    /\ runs[r].pc = "ai"
    /\ \E d \in AnalysisResults :
         Commit(r, AnalysisLoopFrom(runs[r].queueIds, runs[r].i + 1, items,
                       MarkReady(items, CurId(r), d), abortRef))
    /\ UNCHANGED <<budget, aux, abortRef, confirms, timers, nextId, edits, faults, quotaSeen, gated>>

\* catch (err): status error and the message; base64 is left alone; 1 s wait
AnalysisCatch(r, msg) ==
    [items |-> MapItem(items, CurId(r), LAMBDA it :
                  [it EXCEPT !.status = "error", !.errorMessage = msg]),
     run |-> [NoRun EXCEPT !.pc = "cooldown", !.queueIds = runs[r].queueIds,
                           !.i = runs[r].i, !.err = msg],
     done |-> FALSE]

AnalysisImageFails(r) ==
    /\ runs[r].pc = "image"
    /\ faults < budget.faults
    /\ faults' = faults + 1
    /\ \E msg \in {MsgImage} \cup (IF runs[r].cur.pdf THEN {MsgPdfAnalysis} ELSE {}) :
           Commit(r, AnalysisCatch(r, msg))
    /\ UNCHANGED <<budget, aux, abortRef, confirms, timers, nextId, edits, quotaSeen, gated>>

AnalysisAIFails(r) ==
    /\ runs[r].pc = "ai"
    /\ faults < budget.faults
    /\ faults' = faults + 1
    /\ \E msg \in {MsgQuotaAI, MsgFailAI} :
         /\ Commit(r, AnalysisCatch(r, msg))
         /\ quotaSeen' = (quotaSeen \/ isQuotaError(msg))
    /\ UNCHANGED <<budget, aux, abortRef, confirms, timers, nextId, edits, gated>>

AnalysisCooldownDone(r) ==
    /\ runs[r].pc = "cooldown"
    /\ Commit(r, AnalysisLoopFrom(runs[r].queueIds, runs[r].i + 1, items, items, abortRef))
    /\ UNCHANGED <<budget, aux, abortRef, confirms, timers, nextId, edits, faults, quotaSeen, gated>>

\* handleTogglePause.  FileCard renders the button for queued and paused
\* items; a click on it can reach the handler after the loop has taken the
\* item, which is the case the handler's first branch is written for.
handleTogglePause(id) ==
    /\ id \in Ids(items)
    /\ edits < budget.edits
    /\ edits' = edits + 1
    /\ Find(items, id).status \in {"processing_image", "analyzing_ai", "queued", "paused"}
    /\ items' = MapItem(items, id, LAMBDA it :
                    [it EXCEPT !.status = IF it.status = "paused" THEN "queued"
                                          ELSE "paused"])
    /\ UNCHANGED <<budget, aux, hist, isRunning, abortRef, runs, confirms, timers, nextId,
                   faults, quotaSeen, gated>>

\* ---- the upload phase of the two-phase controller (src/unnamed/part_006)
\* handleUploadAllReady holds a slot of `runs` from setIsUploading(true) to
\* setIsUploading(false), suspended at its one await:
\*   send       await uploadToDrive
\* so isUploading is true exactly while an invocation is in flight.
isUploading == \E r \in RunIds : runs[r].pc = "send"

\* const isBusy = isAnalyzing || isUploading
isBusy == isRunning \/ isUploading

MsgSendAll == "Erro no envio. Tente novamente."
MsgSendOne == "Erro ao enviar."

\* const [dia, mes, ano] = d.split('/'), with no test for a '/'
SplitPart(date, k, dflt) ==
    IF k <= Len(date) /\ date[k] # "" THEN date[k] ELSE dflt

\* the payload of handleSingleUpload
SinglePayload(d, b64) ==
    [ano |-> SplitPart(d.dataEmissao, 3, "2025"),
     mes |-> SplitPart(d.dataEmissao, 2, "01"),
     dia |-> SplitPart(d.dataEmissao, 1, "01"),
     serie |-> IF d.serie = "" THEN "N/A" ELSE d.serie,
     numeroDoc |-> d.numeroDoc,
     imagemBase64 |-> b64]

\* itemsRef.current.filter(i => i.status === 'ready').map(i => i.id)
ReadyIds(its) ==
    LET sel == SelectSeq(its, LAMBDA it : it.status = "ready")
    IN [k \in DOMAIN sel |-> sel[k].id]

\* the head of the upload loop: break on abortRef, skip the ids that are
\* gone or paused, set the next item to uploading and send it
UploadLoopFrom(q, i, ref, its, abort) ==
    LET j == IF abort THEN 0 ELSE AnalysisNextIdx(q, i, ref)
    IN IF j = 0
       THEN [items |-> its, run |-> NoRun, done |-> TRUE]
       ELSE [items |-> updateItemStatus(its, q[j], "uploading"),
             run |-> [NoRun EXCEPT !.pc = "send", !.queueIds = q, !.i = j,
                                   !.cur = Find(ref, q[j]),
                                   !.b64 = Find(ref, q[j]).base64,
                                   !.req = Payload(Find(ref, q[j]).data,
                                                   Find(ref, q[j]).base64)],
             done |-> FALSE]

\* what one block of the upload loop leaves behind (isAnalyzing is not its)
\* (sent: the uploadToDrive that the block began with has resolved)
CommitUpload(r, res, sent) ==
    /\ items' = res.items
    /\ runs' = [runs EXCEPT ![r] = res.run]
    /\ hist' = [hist EXCEPT
                  !.stopped = IF res.done THEN @ \ {r} ELSE @,
                  !.sent = IF sent THEN OneMoreSent(runs[r].queueIds[runs[r].i])
                           ELSE @]

\* the "Enviar" button: rendered when !isBusy && readyCount > 0
handleUploadAllReady(r) ==
    /\ ~isBusy
    /\ \E k \in DOMAIN items : items[k].status = "ready"
    /\ FreeSlot(r)
    /\ abortRef' = FALSE
    /\ CommitUpload(r, UploadLoopFrom(ReadyIds(items), 1, items, items, FALSE), FALSE)
    /\ UNCHANGED <<budget, aux, isRunning, confirms, timers, nextId, edits, faults,
                   quotaSeen, gated>>

\* uploadToDrive resolves: success, base64 and message cleared, flag cleared
UploadAllDone(r) ==
    /\ runs[r].pc = "send"
    /\ CommitUpload(r, UploadLoopFrom(runs[r].queueIds, runs[r].i + 1, items,
                          MapItem(items, CurId(r), LAMBDA it :
                              [it EXCEPT !.status = "success", !.base64 = NoBase64,
                                         !.errorMessage = "",
                                         !.data.needsReview = FALSE]),
                          abortRef), TRUE)
    /\ UNCHANGED <<budget, aux, isRunning, abortRef, confirms, timers, nextId, edits,
                   faults, quotaSeen, gated>>

\* uploadToDrive throws: the item stays ready with the message
UploadAllFails(r) ==
    /\ runs[r].pc = "send"
    /\ faults < budget.faults
    /\ faults' = faults + 1
    /\ CommitUpload(r, UploadLoopFrom(runs[r].queueIds, runs[r].i + 1, items,
                          MapItem(items, CurId(r), LAMBDA it :
                              [it EXCEPT !.status = "ready",
                                         !.errorMessage = MsgSendAll]),
                          abortRef), FALSE)
    /\ UNCHANGED <<budget, aux, isRunning, abortRef, confirms, timers, nextId, edits,
                   quotaSeen, gated>>

\* handleSingleUpload up to its await: FileCard's confirm button is rendered
\* when the status is ready; a missing field ends the handler with an alert
handleSingleUpload(id) ==
    /\ id \in Ids(items)
    /\ Find(items, id).status = "ready"
    /\ isManualDataFilled(Find(items, id).data)
    /\ items' = updateItemStatus(items, id, "uploading")
    /\ confirms' = confirms \cup
                     {[id |-> id,
                       req |-> SinglePayload(Find(items, id).data, Find(items, id).base64)]}
    /\ UNCHANGED <<budget, aux, hist, isRunning, abortRef, runs, timers, nextId, edits,
                   faults, quotaSeen, gated>>

\* its uploadToDrive resolves: success, base64 and message cleared
SingleUploadDone(c) ==
    /\ c \in confirms
    /\ items' = MapItem(items, c.id, LAMBDA it :
                    [it EXCEPT !.status = "success", !.base64 = NoBase64,
                               !.errorMessage = ""])
    /\ confirms' = confirms \ {c}
    /\ hist' = [hist EXCEPT !.sent = OneMoreSent(c.id)]
    /\ UNCHANGED <<budget, aux, isRunning, abortRef, runs, timers, nextId, edits,
                   faults, quotaSeen, gated>>

\* its uploadToDrive throws: back to ready with the message
SingleUploadFails(c) ==
    /\ c \in confirms
    /\ faults < budget.faults
    /\ faults' = faults + 1
    /\ items' = MapItem(items, c.id, LAMBDA it :
                    [it EXCEPT !.status = "ready", !.errorMessage = MsgSendOne])
    /\ confirms' = confirms \ {c}
    /\ UNCHANGED <<budget, aux, hist, isRunning, abortRef, runs, timers, nextId, edits,
                   quotaSeen, gated>>

\* the file input is disabled while isBusy
AnalysisFileSelect(n) == ~isUploading /\ handleFileSelect(n)

\* the stop button is rendered while isBusy
stopUpload ==
    /\ ~isRunning
    /\ isUploading
    /\ abortRef' = TRUE
    /\ hist' = [hist EXCEPT !.stopped = {r \in RunIds : runs[r].pc # "idle"}]
    /\ UNCHANGED <<budget, aux, items, isRunning, runs, confirms, timers, nextId, edits,
                   faults, quotaSeen, gated>>

\* the clicks on the pause button are counted in edits
AnalysisBudgets ==
    { [files |-> MaxFiles - 1, runs |-> MaxRuns, edits |-> MaxEdits - 2, faults |-> MaxFaults - 1],
      [files |-> MaxFiles, runs |-> MaxRuns - 1, edits |-> MaxEdits - 2, faults |-> 0] }

AnalysisInit ==
    /\ budget \in AnalysisBudgets
    /\ items = <<>>
    /\ isRunning = FALSE
    /\ abortRef = FALSE
    /\ runs = [r \in RunIds |-> NoRun]
    /\ confirms = {}
    /\ timers = 0
    /\ nextId = 0
    /\ edits = 0
    /\ faults = 0
    /\ quotaSeen = FALSE
    /\ gated = {}
    /\ hist = NoHist
    /\ api = NoCall
    /\ image = NoImage
    /\ urls = NoUrls

AnalysisNext ==
    \/ \E n \in 1..MaxFiles : AnalysisFileSelect(n)
    \/ \E r \in RunIds : startAnalysisQueue(r)
    \/ \E r \in RunIds : AnalysisAutoStart(r)
    \/ AutoStartSkipped
    \/ \E r \in RunIds : AnalysisImageDone(r)
    \/ \E r \in RunIds : AnalysisImageFails(r)
    \/ \E r \in RunIds : AnalysisDelayDone(r)
    \/ \E r \in RunIds : AnalysisAIDone(r)
    \/ \E r \in RunIds : AnalysisAIFails(r)
    \/ \E r \in RunIds : AnalysisCooldownDone(r)
    \/ stopQueue
    \/ \E id \in FileIds : handleTogglePause(id)
    \/ \E id \in FileIds : handleRemove(id)
    \/ \E id \in FileIds : handleRetry(id)
    \/ \E r \in RunIds : handleUploadAllReady(r)
    \/ \E r \in RunIds : UploadAllDone(r)
    \/ \E r \in RunIds : UploadAllFails(r)
    \/ stopUpload
    \/ \E id \in FileIds : handleSingleUpload(id)
    \/ \E c \in confirms : SingleUploadDone(c)
    \/ \E c \in confirms : SingleUploadFails(c)

SpecAnalysis == AnalysisInit /\ [][AnalysisNext]_vars

\* ------------------------------------------------ the queue at its size limit
\* Selections of BatchSelections files at a time, and the trash button, with
\* no run started: the behaviours in which the size test of handleFileSelect
\* decides.
BatchSelections == {40, 70, MAX_BATCH_SIZE, MAX_BATCH_SIZE + 1}

BatchInit ==
    /\ budget = [files |-> BatchFiles, runs |-> 0, edits |-> 0, faults |-> 0]
    /\ items = <<>>
    /\ isRunning = FALSE
    /\ abortRef = FALSE
    /\ runs = [r \in RunIds |-> NoRun]
    /\ confirms = {}
    /\ timers = 0
    /\ nextId = 0
    /\ edits = 0
    /\ faults = 0
    /\ quotaSeen = FALSE
    /\ gated = {}
    /\ hist = NoHist
    /\ api = NoCall
    /\ image = NoImage
    /\ urls = NoUrls

BatchNext ==
    \/ \E n \in BatchSelections : handleFileSelect(n)
    \/ \E n \in BatchSelections : handleFileSelectRejected(n)
    \/ handleClearQueue

SpecBatch == BatchInit /\ [][BatchNext]_vars

\* -------------------------------------------------- reload and the date
\* The page is reloaded: the component is mounted anew, with the initial
\* value of every useState and useRef (BatchManager.tsx l.14-28); what was
\* awaited is gone with the old page.  Nothing is read from a store.
\* hist.reloaded: the page was reloaded on the day a quota error was seen.
Reload ==
    /\ items' = <<>>
    /\ isRunning' = FALSE
    /\ abortRef' = FALSE
    /\ runs' = [r \in RunIds |-> NoRun]
    /\ confirms' = {}
    /\ timers' = 0
    /\ gated' = {}
    /\ hist' = [NoHist EXCEPT !.reloaded = quotaSeen]
    /\ UNCHANGED <<budget, aux, nextId, edits, faults, quotaSeen>>

\* The date changes.  No state of the program depends on the date; from now
\* on no quota error has been seen today.
DateChanges ==
    /\ quotaSeen
    /\ quotaSeen' = FALSE
    /\ hist' = [hist EXCEPT !.reloaded = FALSE]
    /\ UNCHANGED <<budget, aux, items, isRunning, abortRef, runs, confirms, timers,
                   nextId, edits, faults, gated>>

ReloadInit ==
    /\ budget = [files |-> MaxFiles - 1, runs |-> MaxRuns - 1, edits |-> MaxEdits - 2,
                 faults |-> MaxFaults - 1]
    /\ items = <<>>
    /\ isRunning = FALSE
    /\ abortRef = FALSE
    /\ runs = [r \in RunIds |-> NoRun]
    /\ confirms = {}
    /\ timers = 0
    /\ nextId = 0
    /\ edits = 0
    /\ faults = 0
    /\ quotaSeen = FALSE
    /\ gated = {}
    /\ hist = NoHist
    /\ api = NoCall
    /\ image = NoImage
    /\ urls = NoUrls

ReloadNext ==
    \/ \E n \in 1..MaxFiles : handleFileSelect(n)
    \/ \E r \in RunIds : StartButton(r)
    \/ \E r \in RunIds : AutoStartFires(r)
    \/ AutoStartSkipped
    \/ \E r \in RunIds : ImageDone(r)
    \/ \E r \in RunIds : ImageFails(r)
    \/ \E r \in RunIds : ManualWaitDone(r)
    \/ \E r \in RunIds : AIDone(r)
    \/ \E r \in RunIds : AIFails(r)
    \/ \E r \in RunIds : UploadDone(r)
    \/ \E r \in RunIds : UploadFails(r)
    \/ \E r \in RunIds : Tick(r)
    \/ \E r \in RunIds : CooldownDone(r)
    \/ stopQueue
    \/ \E id \in FileIds : handleRemove(id)
    \/ handleClearQueue
    \/ \E id \in FileIds : \E v \in {"", "u"} :
           handleUpdateData(id, "numeroDoc", v) \/ handleUpdateData(id, "serie", v)
    \/ \E id \in FileIds : \E v \in {EmptyDate, UserPartialDate, UserDate} :
           handleUpdateData(id, "dataEmissao", v)
    \/ \E id \in FileIds : handleRetry(id)
    \/ \E id \in FileIds : handleConfirmUpload(id)
    \/ \E c \in confirms : ConfirmDone(c)
    \/ \E c \in confirms : ConfirmFails(c)
    \/ Reload
    \/ DateChanges

SpecReload == ReloadInit /\ [][ReloadNext]_vars

\* the controller at rest, with nothing to do
Rest ==
    /\ budget = [files |-> 0, runs |-> 0, edits |-> 0, faults |-> 0]
    /\ items = <<>>
    /\ isRunning = FALSE
    /\ abortRef = FALSE
    /\ runs = [r \in RunIds |-> NoRun]
    /\ confirms = {}
    /\ timers = 0
    /\ nextId = 0
    /\ edits = 0
    /\ faults = 0
    /\ quotaSeen = FALSE
    /\ gated = {}
    /\ hist = NoHist

main == <<budget, items, isRunning, abortRef, runs, confirms, timers, nextId, edits,
          faults, quotaSeen, gated, hist>>

\* ------------------------------------------------- processImage, in pixels
\* src/lib/imageProcessor.ts.  `image` holds one call of processImage:
\*   none      no call
\*   loading   the file is read and decoded (img.width x img.height known)
\*   resolved  the promise resolved with width/height of the canvas
\*   rejected  the promise rejected with err
MAX_WIDTH == 1280

\* img.width and img.height of the files, and the rotations handleRotate
\* and the default can produce
Widths == {1, 600, 800, 1279, 1280, 1281, 1600, 2560, 4000}
Rotations == {0, 90, 180, 270}

\* Math.round of the quotient a / b of two positive integers
Round(a, b) == (2 * a + b) \div (2 * b)

\* the resize logic with the canvas as wide as the image is high
\* whatever the rotation
CanvasTransposed(width, height, rotation) ==
    [width |-> height, height |-> width]

\* canvas.width and canvas.height
CanvasOf(width, height, rotation) ==
    LET isRotatedSideways == rotation = 90 \/ rotation = 270
    IN [width |-> IF isRotatedSideways THEN height ELSE width,
        height |-> IF isRotatedSideways THEN width ELSE height]

\* 1. Resize Logic: the source is scaled only when it is too wide
Scaled(w, h) ==
    IF (w > MAX_WIDTH \/ h > MAX_WIDTH) /\ w > MAX_WIDTH
    THEN [width |-> MAX_WIDTH, height |-> Round(h * MAX_WIDTH, w)]
    ELSE [width |-> w, height |-> h]

\* processImage(file, rotation) is called with a file of w x h pixels
processImageCalled(w, h, rotation) ==
    /\ image.pc = "none"
    /\ image' = [pc |-> "loading", img |-> [width |-> w, height |-> h],
                 rotation |-> rotation]
    /\ UNCHANGED <<main, api, urls>>

\* img.onload: the canvas is sized and drawn, the promise resolves with the
\* canvas's width and height
imgOnload ==
    /\ image.pc = "loading"
    /\ LET sc == Scaled(image.img.width, image.img.height)
           canvas == CanvasOf(sc.width, sc.height, image.rotation)
       IN image' = [pc |-> "resolved", img |-> image.img, rotation |-> image.rotation,
                    scaled |-> sc, canvas |-> canvas,
                    width |-> canvas.width, height |-> canvas.height]
    /\ UNCHANGED <<main, api, urls>>

\* reader.onerror, img.onerror, or no 2d context
imgOnerror ==
    /\ image.pc = "loading"
    /\ \E err \in {"Failed to read file", MsgImage, "Could not get canvas context"} :
         image' = [pc |-> "rejected", err |-> err]
    /\ UNCHANGED <<main, api, urls>>

\* the caller has taken the outcome
processImageSettled ==
    /\ image.pc \in {"resolved", "rejected"}
    /\ image' = NoImage
    /\ UNCHANGED <<main, api, urls>>

ImageInit == Rest /\ api = NoCall /\ image = NoImage /\ urls = NoUrls

ImageNext ==
    \/ \E w \in Widths, h \in Widths, rotation \in Rotations :
          processImageCalled(w, h, rotation)
    \/ imgOnload
    \/ imgOnerror
    \/ processImageSettled

SpecImage == ImageInit /\ [][ImageNext]_vars

\* ------------------------------------------- extractDataFromImage, inside
\* src/unnamed/part_000 (services/api).  `api` holds one call:
\*   none      no call
\*   calling   await ai.models.generateContent(...)
\*   backoff   await delay(waitTime)
\*   returned  the promise resolved with the parsed data
\*   thrown    the promise rejected with err
\* attempt is the local of that name, calls counts the generateContent
\* invocations and log lists the errors caught so far.
maxRetries == 4
MsgNoKey == "Chave de API não configurada no sistema (API_KEY missing)."

\* What the catch block can tell about an error: isQuotaError (429,
\* RESOURCE_EXHAUSTED, quota) and isServerOverload (503).  An error with
\* neither is any other failure, among them the two raised inside the try
\* ("No response from AI", JSON.parse).
AIErrors == [quota : BOOLEAN, overload : BOOLEAN]

\* a catch block that retries whatever the error
RetriesAll(err, attempt) == attempt < maxRetries - 1

\* (isQuotaError || isServerOverload) && attempt < maxRetries - 1
Retries(err, attempt) == (err.quota \/ err.overload) /\ attempt < maxRetries - 1

\* the error thrown when the catch block gives up
Fatal(err) == IF err.quota THEN MsgQuotaAI ELSE MsgFailAI

\* Math.pow(2, attempt) * 2000
RECURSIVE Pow2(_)
Pow2(n) == IF n = 0 THEN 1 ELSE 2 * Pow2(n - 1)
\* a backoff that starts at the base delay
waitTimeFromBase(attempt) == Pow2(attempt - 1) * 2000

waitTime(attempt) == Pow2(attempt) * 2000

\* extractDataFromImage(base64Image) with the key configured: first attempt
extractCalled ==
    /\ api.pc = "none"
    /\ api' = [pc |-> "calling", attempt |-> 0, calls |-> 1, log |-> <<>>]
    /\ UNCHANGED <<main, image, urls>>

\* if (!GEMINI_API_KEY) throw
extractWithoutKey ==
    /\ api.pc = "none"
    /\ api' = [pc |-> "thrown", attempt |-> 0, calls |-> 0, log |-> <<>>, err |-> MsgNoKey]
    /\ UNCHANGED <<main, image, urls>>

\* the response has a text that parses: return
generateContentReturns(d) ==
    /\ api.pc = "calling"
    /\ api' = [pc |-> "returned", attempt |-> api.attempt, calls |-> api.calls,
               log |-> api.log, data |-> d]
    /\ UNCHANGED <<main, image, urls>>

\* catch (error): back off and retry, or throw
generateContentFails(err) ==
    /\ api.pc = "calling"
    /\ api' = IF Retries(err, api.attempt)
              THEN [pc |-> "backoff", attempt |-> api.attempt + 1, calls |-> api.calls,
                    log |-> Append(api.log, err), wait |-> waitTime(api.attempt + 1)]
              ELSE [pc |-> "thrown", attempt |-> api.attempt, calls |-> api.calls,
                    log |-> Append(api.log, err), err |-> Fatal(err)]
    /\ UNCHANGED <<main, image, urls>>

\* the delay is over: continue, and the loop's test attempt < maxRetries
\* holds, since attempt was below maxRetries - 1 before its increment
delayDone ==
    /\ api.pc = "backoff"
    /\ api.attempt < maxRetries
    /\ api' = [pc |-> "calling", attempt |-> api.attempt, calls |-> api.calls + 1,
               log |-> api.log]
    /\ UNCHANGED <<main, image, urls>>

\* the caller has taken the outcome
extractSettled ==
    /\ api.pc \in {"returned", "thrown"}
    /\ api' = NoCall
    /\ UNCHANGED <<main, image, urls>>

ApiInit == Rest /\ api = NoCall /\ image = NoImage /\ urls = NoUrls

ApiNext ==
    \/ extractCalled
    \/ extractWithoutKey
    \/ \E d \in AIResults : generateContentReturns(d)
    \/ \E err \in AIErrors : generateContentFails(err)
    \/ delayDone
    \/ extractSettled

SpecApi == ApiInit /\ [][ApiNext]_vars

\* ------------------------------------------------------------------ claims
IsActive(it) == it.status \in ActiveStatus

ActiveIds == {id \in Ids(items) : IsActive(Find(items, id))}

InFlight(r) == runs[r].pc # "idle"

\* the id a run works on after the step
CurIdNext(r) == runs'[r].queueIds[runs'[r].i]

\* a step in which the uploadToDrive awaited by run r throws
LoopUploadFailed(r) == runs[r].pc = "upload" /\ runs'[r].pc = "cooldown"

\* a step in which the uploadToDrive awaited by confirm c throws
ConfirmUploadFailed(c) == c \in confirms /\ c \notin confirms' /\ faults' # faults

\* C1: at most one item of the queue is in processing_image, analyzing_ai
\* or uploading, in every reachable state.
C1_SequentialExclusivity == Cardinality(ActiveIds) <= 1

\* C2: an extraction result that needs review (needsReview, or an empty
\* required field) puts the item in ready with the message, and no run moves
\* an item so gated to uploading before the user has confirmed it.
C2_ReviewGate ==
    [][\A r \in RunIds :
          /\ (/\ runs[r].pc = "ai"
              /\ runs'[r] # runs[r]
              /\ faults' = faults
              /\ CurId(r) \in Ids(items)
              /\ ReviewNeeded(Find(items', CurId(r)).data))
             => /\ Find(items', CurId(r)).status = "ready"
                /\ Find(items', CurId(r)).errorMessage = MsgReview
          /\ (runs'[r].pc = "upload" /\ runs[r].pc # "upload")
             => CurIdNext(r) \notin gated]_vars

\* C3: no item has status success while its data carries needsReview = true.
C3_NoReviewFlagOnSuccess ==
    \A k \in DOMAIN items : items[k].status = "success" => ~items[k].data.needsReview

C5_ManualOverride ==
    \A r \in RunIds :
       (InFlight(r) /\ isManualDataFilled(runs[r].cur.data)) =>
          /\ runs[r].pc # "ai"
          /\ runs[r].pc = "upload" =>
                /\ runs[r].req.imagemBase64 # NoBase64
                /\ runs[r].req.numeroDoc = runs[r].cur.data.numeroDoc
                /\ runs[r].req.serie = runs[r].cur.data.serie
                /\ <<runs[r].req.dia, runs[r].req.mes, runs[r].req.ano>>
                      = runs[r].cur.data.dataEmissao

\* C6: a failed upload, of the drain loop or of a confirm, leaves the item's
\* fields and its encoded image present and unchanged.
C6_FailedUploadKeepsData ==
    [][/\ \A r \in RunIds :
            (LoopUploadFailed(r) /\ CurId(r) \in Ids(items)) =>
               /\ Find(items', CurId(r)).data = Find(items, CurId(r)).data
               /\ Find(items', CurId(r)).base64 = Find(items, CurId(r)).base64
               /\ Find(items', CurId(r)).base64 # NoBase64
       /\ \A c \in confirms :
            (ConfirmUploadFailed(c) /\ c.id \in Ids(items)) =>
               /\ Find(items', c.id).data = Find(items, c.id).data
               /\ Find(items', c.id).base64 = Find(items, c.id).base64
               /\ Find(items', c.id).base64 # NoBase64]_vars

\* C7: after a failed upload the item's status is ready, never error.
C7_FailedUploadGoesReady ==
    [][/\ \A r \in RunIds :
            (LoopUploadFailed(r) /\ CurId(r) \in Ids(items)) =>
               Find(items', CurId(r)).status = "ready"
       /\ \A c \in confirms :
            (ConfirmUploadFailed(c) /\ c.id \in Ids(items)) =>
               Find(items', c.id).status = "ready"]_vars

\* C8: an item whose status is success holds no encoded image.
C8_SuccessHasNoImage ==
    \A k \in DOMAIN items : items[k].status = "success" => items[k].base64 = NoBase64

\* the position of an id in a queue
Pos(its, id) == CHOOSE k \in DOMAIN its : its[k].id = id

\* the iterations of run r after the current one whose item is still queued
Later(r) == {j \in (runs[r].i + 1)..Len(runs[r].queueIds) :
                runs[r].queueIds[j] \in Ids(items)}

\* C9: a failure of the image step, the extraction or the upload of one item
\* does not end the run: the item gets status error and a message, the run
\* waits, and then goes on with the next item of its snapshot that is still
\* in the queue; a run ends only when a stop was requested or no such item
\* is left.
C9_FailureDoesNotEndRun ==
    [][\A r \in RunIds :
          /\ (/\ runs[r].pc \in {"image", "ai", "upload"}
              /\ runs'[r] # runs[r]
              /\ faults' # faults)
             => /\ runs'[r].pc = "cooldown"
                /\ runs'[r].queueIds = runs[r].queueIds
                /\ runs'[r].i = runs[r].i
                /\ CurId(r) \in Ids(items) =>
                      /\ Find(items', CurId(r)).status = "error"
                      /\ Find(items', CurId(r)).errorMessage # ""
          /\ (runs[r].pc = "cooldown" /\ runs'[r] # runs[r] /\ ~abortRef /\ Later(r) # {})
             => /\ runs'[r].pc = "image"
                /\ runs'[r].queueIds = runs[r].queueIds
                /\ runs'[r].i \in Later(r)
                /\ \A j \in Later(r) : runs'[r].i <= j
                /\ Find(items', CurIdNext(r)).status = "processing_image"
          /\ (InFlight(r) /\ runs'[r].pc = "idle")
             => (abortRef \/ Later(r) = {})]_vars

\* C9 witness: a run works on an item after the item before it in its
\* snapshot failed and was left in error.
C9_Witness ==
    \E r \in RunIds :
       /\ runs[r].pc \in {"image", "ai", "upload"}
       /\ runs[r].i >= 2
       /\ Find(items, runs[r].queueIds[runs[r].i - 1]).status = "error"
       /\ Find(items, CurId(r)).status \in ActiveStatus

\* C10: the snapshot of a run holds the ids of the items that are queued or
\* error when it starts, in queue order, and the run enters processing_image
\* for them in that order: it starts at the first, and moves only forward,
\* passing over ids that are no longer in the queue.
C10_QueueOrder ==
    [][\A r \in RunIds :
          /\ (~InFlight(r) /\ runs'[r].pc # "idle")
             => /\ \A k \in DOMAIN items :
                      items[k].status \in {"queued", "error"}
                        <=> \E j \in DOMAIN runs'[r].queueIds :
                               runs'[r].queueIds[j] = items[k].id
                /\ \A a, b \in DOMAIN runs'[r].queueIds :
                      a < b => Pos(items, runs'[r].queueIds[a])
                                 < Pos(items, runs'[r].queueIds[b])
                /\ runs'[r].pc = "image"
                /\ runs'[r].i = 1
                /\ Find(items', CurIdNext(r)).status = "processing_image"
          /\ (InFlight(r) /\ runs'[r].pc # "idle" /\ runs'[r].i # runs[r].i)
             => /\ runs'[r].queueIds = runs[r].queueIds
                /\ runs'[r].pc = "image"
                /\ runs'[r].i > runs[r].i
                /\ \A j \in (runs[r].i + 1)..(runs'[r].i - 1) :
                      runs[r].queueIds[j] \notin Ids(items)
                /\ Find(items', CurIdNext(r)).status = "processing_image"]_vars

\* C10 witness: a run has entered processing_image for the third item of its
\* snapshot after the second was removed from the queue.
C10_Witness ==
    \E r \in RunIds :
       /\ runs[r].pc = "image"
       /\ runs[r].i = 3
       /\ runs[r].queueIds[2] \notin Ids(items)
       /\ Find(items, CurId(r)).status = "processing_image"

\* the ids run r has been through, the current one included
Handled(r) == {runs[r].queueIds[j] : j \in 1..runs[r].i}

C12_AutoStartAfterSelect ==
    [][(/\ timers = 1
        /\ timers' = 0
        /\ hist.fresh
        /\ \A r \in RunIds : ~InFlight(r)
        /\ Find(items, nextId).status = "queued")
       => \E r \in RunIds :
             /\ runs'[r].pc = "image"
             /\ \E j \in DOMAIN runs'[r].queueIds : runs'[r].queueIds[j] = nextId]_vars

C14_StopEndsRun ==
    [][\A r \in hist.stopped :
          /\ ~(/\ runs'[r].pc = "image"
               /\ (runs[r].pc # "image" \/ runs'[r].i # runs[r].i))
          /\ (InFlight(r) /\ runs'[r].pc = "idle")
             => /\ ~isRunning'
                /\ Find(items', CurId(r)).status \notin ActiveStatus]_vars

\* C15: when run r's item was paused while the run awaited its image step,
\* its delay or its extraction, the item is still paused after the step has
\* completed without an error and the run does nothing more on it: it calls
\* no extraction and does not move it to ready.
C15_PauseHonoured ==
    [][\A r \in RunIds :
          (/\ runs[r].pc \in {"image", "aidelay", "ai"}
           /\ runs'[r] # runs[r]
           /\ runs'[r].pc # "cooldown"
           /\ CurId(r) \in Ids(items')
           /\ Find(items, CurId(r)).status = "paused")
          => /\ Find(items', CurId(r)).status = "paused"
             /\ ~(runs'[r].pc \in {"aidelay", "ai"} /\ runs'[r].i = runs[r].i)]_vars

Larger(a, b) == IF a >= b THEN a ELSE b

\* C18: whatever the size of the source and the rotation, the larger side
\* of the image processImage resolves with is at most 1280 pixels, and a
\* source with both sides at most 1280 comes out at its own size.
C18_ResizeBound ==
    image.pc = "resolved" =>
        /\ Larger(image.width, image.height) <= 1280
        /\ (image.img.width <= 1280 /\ image.img.height <= 1280)
              => {image.width, image.height} = {image.img.width, image.img.height}

\* C19: the canvas of a resolved call is h x w for rotation 90 or 270 and
\* w x h for rotation 0 or 180, w x h being the scaled source size, and the
\* width and height reported are the canvas's.
C19_CanvasSwap ==
    image.pc = "resolved" =>
        /\ image.rotation \in {90, 270}
              => image.canvas = [width |-> image.scaled.height, height |-> image.scaled.width]
        /\ image.rotation \in {0, 180}
              => image.canvas = [width |-> image.scaled.width, height |-> image.scaled.height]
        /\ image.width = image.canvas.width
        /\ image.height = image.canvas.height

\* a source of 800 x 600 turned by 90 degrees came out as 600 x 800
C19_Witness ==
    /\ image.pc = "resolved"
    /\ image.img = [width |-> 800, height |-> 600]
    /\ image.rotation = 90
    /\ image.width = 600
    /\ image.height = 800

\* C16: one call of extractDataFromImage invokes the AI service at most 4
\* times; every failure that was followed by another attempt was of the
\* 429 or the 503 class, and a failure of neither class is the last thing
\* the call saw before it threw.
C16_BoundedRetries ==
    api.pc # "none" =>
        /\ api.calls <= 4
        /\ api.calls >= Len(api.log)
        /\ \A k \in 1..Len(api.log) :
              (k < Len(api.log) \/ api.pc # "thrown")
                 => (api.log[k].quota \/ api.log[k].overload)

\* a call that made its fourth invocation after three failures of the two
\* retried classes
C16_Witness ==
    /\ api.pc = "calling"
    /\ api.calls = 4
    /\ \E k \in 1..3 : api.log[k].overload /\ ~api.log[k].quota
    /\ \E k \in 1..3 : api.log[k].quota

\* C17: when extractDataFromImage gives up after a failure, the error it
\* throws is of the quota kind exactly when the last failure was 429-class,
\* and after a 503-class last failure it is neither the quota error nor the
\* error thrown for failures of neither class.
C17_ThreeErrorClasses ==
    (api.pc = "thrown" /\ Len(api.log) > 0) =>
        LET last == api.log[Len(api.log)]
        IN /\ last.quota <=> (api.err = MsgQuotaAI)
           /\ (last.overload /\ ~last.quota)
                 => api.err \notin {MsgQuotaAI, Fatal([quota |-> FALSE, overload |-> FALSE])}

UserDates == {UserDate, UserPartialDate}

\* C21: a field of an item that holds a value typed by the user keeps a
\* value typed by the user, or is emptied by the user: no step replaces it
\* by a value the Extraction Client returned.
C21_UserValueKept ==
    [][\A id \in Ids(items) \cap Ids(items') :
          /\ \A f \in {"numeroDoc", "serie"} :
                Find(items, id).data[f] = "u" => Find(items', id).data[f] \in {"u", ""}
          /\ Find(items, id).data.dataEmissao \in UserDates
                => Find(items', id).data.dataEmissao \in UserDates \cup {EmptyDate}]_vars

\* C22: at most one invocation of startQueue is in flight.
C22_SingleRun == Cardinality({r \in RunIds : InFlight(r)}) <= 1

\* the iterations run r passes over in this step without working on them
PassedOver(r) ==
    (runs[r].i + 1) ..
       (IF runs'[r].pc = "idle" THEN Len(runs[r].queueIds) ELSE runs'[r].i - 1)

\* C23: a run of the two-phase controller (analysis or upload) that reaches
\* an item whose status is paused does not take it (the item a run takes at
\* the head of an iteration is not paused), and the paused items it passes
\* over are left as they are.
C23_PausedSkipped ==
    [][\A r \in RunIds :
          /\ (/\ runs'[r].pc \in {"image", "send"}
              /\ (runs[r].pc = "idle" \/ runs'[r].i # runs[r].i))
             => Find(items, CurIdNext(r)).status # "paused"
          /\ (InFlight(r) /\ runs'[r] # runs[r] /\ ~abortRef)
             => \A j \in PassedOver(r) :
                   Find(items, runs[r].queueIds[j]).status = "paused"
                      => Find(items', runs[r].queueIds[j])
                            = Find(items, runs[r].queueIds[j])]_vars

\* C23 witness: with no failure so far, a run is past an item of its
\* snapshot that is paused and has no encoded image: the run skipped it.
C23_Witness ==
    /\ faults = 0
    /\ \E r \in RunIds :
          /\ runs[r].pc = "image"
          /\ \E j \in 1..(runs[r].i - 1) :
                /\ Find(items, runs[r].queueIds[j]).status = "paused"
                /\ Find(items, runs[r].queueIds[j]).base64 = NoBase64

\* C24: a step that takes an item from error to queued clears its message
\* and changes nothing else in the queue; a run that starts takes every
\* queued item into its snapshot; and a run does not await the Extraction
\* Client for an item whose three fields were filled as the loop reached it.
C24_Retry ==
    [][/\ \A id \in Ids(items) \cap Ids(items') :
             (Find(items, id).status = "error" /\ Find(items', id).status = "queued")
                => /\ Len(items') = Len(items)
                   /\ \A k \in DOMAIN items :
                         items'[k] = IF items[k].id = id
                                     THEN [items[k] EXCEPT !.status = "queued",
                                                           !.errorMessage = ""]
                                     ELSE items[k]
       /\ \A r \in RunIds :
             /\ (~InFlight(r) /\ InFlight(r)')
                => \A k \in DOMAIN items :
                      items[k].status = "queued"
                         => \E j \in DOMAIN runs'[r].queueIds :
                               runs'[r].queueIds[j] = items[k].id
             /\ (runs[r].pc = "image" /\ runs'[r].pc = "ai")
                => (\/ runs[r].cur.data.numeroDoc = ""
                    \/ runs[r].cur.data.serie = ""
                    \/ runs[r].cur.data.dataEmissao = EmptyDate)]_vars

\* C24 witness: a run has normalized the image of an item that was retried
\* and goes on without the Extraction Client, the three fields being filled.
C24_Witness ==
    \E r \in RunIds :
       /\ runs[r].pc = "manualwait"
       /\ CurId(r) \in hist.retried
       /\ Find(items, CurId(r)).errorMessage = ""

\* C25: when the upload of a run's item succeeds, the item is not the last
\* of the snapshot and no stop is requested, the run waits: 15 ticks when
\* the item's three fields were not all filled as the loop reached it (the
\* AI was invoked), 2 ticks otherwise.  A tick that ends is followed by the
\* next tick of the same wait unless it was the last one or a stop is
\* requested, and no run goes from an upload straight to the next item.
C25_InterItemWait ==
    [][\A r \in RunIds :
          /\ (/\ runs[r].pc = "upload"
              /\ runs'[r].pc \notin {"upload", "cooldown"}
              /\ runs[r].i < Len(runs[r].queueIds)
              /\ ~abortRef)
             => /\ runs'[r].pc = "tick"
                /\ runs'[r].i = runs[r].i
                /\ runs'[r].s = IF \/ runs[r].cur.data.numeroDoc = ""
                                   \/ runs[r].cur.data.serie = ""
                                   \/ runs[r].cur.data.dataEmissao = EmptyDate
                                THEN 15 ELSE 2
          /\ (runs[r].pc = "upload" /\ runs'[r].pc = "image") => FALSE
          /\ (runs[r].pc = "tick" /\ runs'[r] # runs[r])
             => \/ /\ runs'[r].pc = "tick"
                   /\ runs'[r].i = runs[r].i
                   /\ runs'[r].s = runs[r].s - 1
                   /\ runs'[r].s > 0
                \/ runs[r].s = 1
                \/ abortRef]_vars

\* C25 witness: a run is in the last tick of the wait that follows an item
\* for which the AI was invoked, and no stop is requested.
C25_Witness ==
    \E r \in RunIds :
       /\ runs[r].pc = "tick"
       /\ runs[r].s = 1
       /\ ~abortRef
       /\ Find(items, CurId(r)).status = "success"
       /\ Find(items, CurId(r)).data.numeroDoc = "a"

\* C26: a run that has invoked the Extraction Client invokes it again only
\* after one of its waits: the step in which it makes the next call ends a
\* wait, or a wait has ended since the call before.
C26_DelayBetweenCalls ==
    [][\A r \in RunIds :
          (runs[r].pc # "ai" /\ runs'[r].pc = "ai" /\ r \in hist.hot)
             => runs[r].pc \in {"tick", "cooldown", "manualwait", "aidelay"}]_vars


\* C27: an item whose status is uploading or ready holds an encoded image,
\* and no upload request, of a run or of a confirm, carries an empty image.
C27_ImagePresent ==
    /\ \A k \in DOMAIN items :
          items[k].status \in {"uploading", "ready"} =>
             items[k].base64 # NoBase64
    /\ \A r \in RunIds :
          runs[r].pc \in {"upload", "send"} => runs[r].req.imagemBase64 # NoBase64
    /\ \A c \in confirms : c.req.imagemBase64 # NoBase64


\* ------------------------------------------- the earlier one-pass controller
\* part_007: startQueue extracts and uploads every item in one pass, with no
\* review stop, no manual branch and no auto-start; the head of its loop, its
\* start button, its waits, stopQueue and handleRetry read as the ones above.

\* catch (err): status error, err.message, base64 cleared, then the 2 s wait
EarlyCatch(r, msg) ==
    [items |-> MapItem(items, CurId(r), LAMBDA it :
                  [it EXCEPT !.status = "error", !.errorMessage = msg,
                             !.base64 = NoBase64]),
     run |-> [NoRun EXCEPT !.pc = "cooldown", !.queueIds = runs[r].queueIds,
                           !.i = runs[r].i, !.err = msg],
     done |-> FALSE]

\* handleFileSelect: the input is disabled while isRunning; the batch limit;
\* the new items; no timeout is set
EarlyFileSelect(n) ==
    /\ ~isRunning
    /\ nextId + n <= budget.files
    /\ Len(items) + n <= MAX_BATCH_SIZE
    /\ items' = items \o NewItems(nextId + 1, n)
    /\ nextId' = nextId + n
    /\ UNCHANGED <<budget, aux, hist, isRunning, abortRef, runs, confirms, timers, edits,
                   faults, quotaSeen, gated>>

\* STEP A settles: base64 saved, then STEP B sets analyzing_ai and calls the AI
EarlyImageDone(r) ==
    /\ runs[r].pc = "image"
    /\ LET b64 == processImage(runs[r].cur)
           saved == MapItem(items, CurId(r), LAMBDA it : [it EXCEPT !.base64 = b64])
       IN Commit(r, [items |-> updateItemStatus(saved, CurId(r), "analyzing_ai"),
                     run |-> [runs[r] EXCEPT !.pc = "ai", !.b64 = b64],
                     done |-> FALSE])
    /\ UNCHANGED <<budget, aux, abortRef, confirms, timers, nextId, edits, faults,
                   quotaSeen, gated>>

\* STEP A throws: convertPdfToJpeg (PDF files only) or processImage
EarlyImageFails(r) ==
    /\ runs[r].pc = "image"
    /\ faults < budget.faults
    /\ faults' = faults + 1
    /\ \E msg \in {MsgImage} \cup (IF runs[r].cur.pdf THEN {MsgPdf} ELSE {}) :
           Commit(r, EarlyCatch(r, msg))
    /\ UNCHANGED <<budget, aux, abortRef, confirms, timers, nextId, edits, quotaSeen, gated>>

\* extractDataFromImage returns d: the data is stored and STEP C sets
\* uploading and sends d with the image of STEP A
EarlyAIDone(r) ==
    /\ runs[r].pc = "ai"
    /\ \E d \in AnalysisResults :
          LET stored == MapItem(items, CurId(r), LAMBDA it : [it EXCEPT !.data = d])
          IN Commit(r, [items |-> updateItemStatus(stored, CurId(r), "uploading"),
                        run |-> [runs[r] EXCEPT !.pc = "upload",
                                                !.req = Payload(d, runs[r].b64)],
                        done |-> FALSE])
    /\ UNCHANGED <<budget, aux, abortRef, confirms, timers, nextId, edits, faults,
                   quotaSeen, gated>>

\* extractDataFromImage throws
EarlyAIFails(r) ==
    /\ runs[r].pc = "ai"
    /\ faults < budget.faults
    /\ faults' = faults + 1
    /\ \E msg \in {MsgQuotaAI, MsgFailAI} : Commit(r, EarlyCatch(r, msg))
    /\ UNCHANGED <<budget, aux, abortRef, confirms, timers, nextId, edits, quotaSeen, gated>>

\* uploadToDrive resolves.  STEP D: status success and base64 cleared, the
\* other fields of the item spread as they are; STEP E: the 15 s unless this
\* was the last id
EarlyUploadDone(r) ==
    /\ runs[r].pc = "upload"
    /\ LET q == runs[r].queueIds
           i == runs[r].i
           done == MapItem(items, CurId(r), LAMBDA it :
                       [it EXCEPT !.status = "success", !.base64 = NoBase64])
       IN IF i < Len(q) /\ ~abortRef
          THEN Commit(r, [items |-> done,
                          run |-> [NoRun EXCEPT !.pc = "tick", !.queueIds = q, !.i = i,
                                                !.s = WAIT_AI],
                          done |-> FALSE])
          ELSE Commit(r, LoopFrom(q, i + 1, items, done, abortRef))
    /\ UNCHANGED <<budget, aux, abortRef, confirms, timers, nextId, edits, faults,
                   quotaSeen, gated>>

\* uploadToDrive throws
EarlyUploadFails(r) ==
    /\ runs[r].pc = "upload"
    /\ faults < budget.faults
    /\ faults' = faults + 1
    /\ Commit(r, EarlyCatch(r, MsgUpload))
    /\ UNCHANGED <<budget, aux, abortRef, confirms, timers, nextId, edits, quotaSeen, gated>>

\* handleRemove: the card renders the X button unless the status is
\* uploading or success
EarlyRemove(id) ==
    /\ id \in Ids(items)
    /\ Find(items, id).status \notin {"uploading", "success"}
    /\ items' = Without(items, id)
    /\ UNCHANGED <<budget, aux, hist, isRunning, abortRef, runs, confirms, timers, nextId,
                   edits, faults, quotaSeen, gated>>

\* handleClearFinished: the button is rendered when !isRunning,
\* successCount > 0 and queuedCount === 0
handleClearFinished ==
    /\ ~isRunning
    /\ \E k \in DOMAIN items : items[k].status = "success"
    /\ \A k \in DOMAIN items : items[k].status # "queued"
    /\ items' = SelectSeq(items, LAMBDA it : it.status # "success")
    /\ UNCHANGED <<budget, aux, hist, isRunning, abortRef, runs, confirms, timers, nextId,
                   edits, faults, quotaSeen, gated>>

EarlyBudgets ==
    { [files |-> MaxFiles - 1, runs |-> MaxRuns - 1, edits |-> 0, faults |-> MaxFaults - 1] }

EarlyInit ==
    /\ budget \in EarlyBudgets
    /\ items = <<>>
    /\ isRunning = FALSE
    /\ abortRef = FALSE
    /\ runs = [r \in RunIds |-> NoRun]
    /\ confirms = {}
    /\ timers = 0
    /\ nextId = 0
    /\ edits = 0
    /\ faults = 0
    /\ quotaSeen = FALSE
    /\ gated = {}
    /\ hist = NoHist
    /\ api = NoCall
    /\ image = NoImage
    /\ urls = NoUrls

EarlyNext ==
    \/ \E n \in 1..MaxFiles : EarlyFileSelect(n)
    \/ \E r \in RunIds : StartButton(r)
    \/ \E r \in RunIds : EarlyImageDone(r)
    \/ \E r \in RunIds : EarlyImageFails(r)
    \/ \E r \in RunIds : EarlyAIDone(r)
    \/ \E r \in RunIds : EarlyAIFails(r)
    \/ \E r \in RunIds : EarlyUploadDone(r)
    \/ \E r \in RunIds : EarlyUploadFails(r)
    \/ \E r \in RunIds : Tick(r)
    \/ \E r \in RunIds : CooldownDone(r)
    \/ stopQueue
    \/ \E id \in FileIds : EarlyRemove(id)
    \/ \E id \in FileIds : handleRetry(id)
    \/ handleClearFinished

SpecEarly == EarlyInit /\ [][EarlyNext]_vars

\* C28: an item whose status is success has no errorMessage.
C28_SuccessWithoutMessage ==
    \A k \in DOMAIN items :
       items[k].status = "success" => items[k].errorMessage = ""


\* C29: success is final: an item whose status is success keeps that status
\* in every step that leaves it in the queue.
C29_SuccessFinal ==
    [][\A id \in FileIds :
          (id \in Ids(items) /\ Find(items, id).status = "success"
             /\ id \in Ids(items'))
             => Find(items', id).status = "success"]_vars


\* C30: every step that sets an item to uploading finds it in status ready;
\* no item goes from processing_image or analyzing_ai directly to uploading.
C30_UploadFromReady ==
    [][\A id \in FileIds :
          (id \in Ids(items) /\ id \in Ids(items')
             /\ Find(items, id).status # "uploading"
             /\ Find(items', id).status = "uploading")
             => Find(items, id).status = "ready"]_vars


\* C31: the wait before the k-th retry of one extractDataFromImage call is
\* 4 s, 8 s, 16 s for k = 1, 2, 3 (2 s x 2^k, each twice the one before),
\* and the fourth attempt is followed by no wait.
C31_Backoff ==
    api.pc = "backoff" =>
       /\ api.calls \in 1..3
       /\ api.attempt = api.calls
       /\ api.wait = <<4000, 8000, 16000>>[api.calls]

\* C31 witness: the call waits 16 s before its third retry.
C31_Witness ==
    api.pc = "backoff" /\ api.calls = 3 /\ api.wait = 16000


\* ------------------------------------------------- the rotate command
\* The controller of BatchManager.tsx with handleRotate among its commands;
\* rotate commands are counted in `edits`, and the fields are left as the
\* Extraction Client fills them.
RotateBudgets ==
    { [files |-> MaxFiles - 1, runs |-> MaxRuns - 1, edits |-> MaxEdits - 1,
       faults |-> MaxFaults - 1] }

RotateInit ==
    /\ budget \in RotateBudgets
    /\ items = <<>>
    /\ isRunning = FALSE
    /\ abortRef = FALSE
    /\ runs = [r \in RunIds |-> NoRun]
    /\ confirms = {}
    /\ timers = 0
    /\ nextId = 0
    /\ edits = 0
    /\ faults = 0
    /\ quotaSeen = FALSE
    /\ gated = {}
    /\ hist = NoHist
    /\ api = NoCall
    /\ image = NoImage
    /\ urls = NoUrls

RotateNext ==
    \/ \E n \in 1..MaxFiles : handleFileSelect(n)
    \/ \E r \in RunIds : StartButton(r)
    \/ \E r \in RunIds : AutoStartFires(r)
    \/ AutoStartSkipped
    \/ \E r \in RunIds : ImageDone(r)
    \/ \E r \in RunIds : ImageFails(r)
    \/ \E r \in RunIds : AIDone(r)
    \/ \E r \in RunIds : AIFails(r)
    \/ \E r \in RunIds : UploadDone(r)
    \/ \E r \in RunIds : UploadFails(r)
    \/ \E r \in RunIds : Tick(r)
    \/ \E r \in RunIds : CooldownDone(r)
    \/ stopQueue
    \/ \E id \in FileIds : handleRemove(id)
    \/ handleClearQueue
    \/ \E id \in FileIds : handleRotate(id)
    \/ \E id \in FileIds : handleRetry(id)
    \/ \E id \in FileIds : handleConfirmUpload(id)
    \/ \E c \in confirms : ConfirmDone(c)
    \/ \E c \in confirms : ConfirmFails(c)

SpecRotate == RotateInit /\ [][RotateNext]_vars

\* a step in which the image step of run r settles with an image
Normalized(r) == runs[r].pc = "image" /\ runs'[r].pc \in {"ai", "manualwait"}

C33_BakedRotationKept ==
    [][\A r \in RunIds :
          (Normalized(r) /\ CurId(r) \in Ids(items'))
             => Find(items', CurId(r)).base64 = hist.orient[CurId(r)]]_vars


\* the upload requests for item id that are awaited
UploadsInFlight(id) ==
    Cardinality({r \in RunIds : runs[r].pc \in {"upload", "send"}
                                  /\ runs[r].queueIds[runs[r].i] = id})
      + Cardinality({c \in confirms : c.id = id})

\* C34: for each item at most one upload request is in flight, and at most
\* one upload of it has resolved.
C34_OneUploadPerItem ==
    \A id \in FileIds : UploadsInFlight(id) <= 1 /\ hist.sent[id] <= 1


\* ------------------------------------------------------------ termination
\* The controller of BatchManager.tsx under the assumption that every call a
\* run awaits settles and every timeout it waits for fires: each block of a
\* run that can be taken is taken in the end.
LiveBudgets ==
    { [files |-> MaxFiles - 1, runs |-> MaxRuns - 1, edits |-> 0, faults |-> MaxFaults - 1],
      [files |-> MaxFiles - 2, runs |-> MaxRuns, edits |-> 0, faults |-> MaxFaults - 1],
      [files |-> MaxFiles - 2, runs |-> MaxRuns - 1, edits |-> MaxEdits, faults |-> 0] }

LiveInit ==
    /\ budget \in LiveBudgets
    /\ items = <<>>
    /\ isRunning = FALSE
    /\ abortRef = FALSE
    /\ runs = [r \in RunIds |-> NoRun]
    /\ confirms = {}
    /\ timers = 0
    /\ nextId = 0
    /\ edits = 0
    /\ faults = 0
    /\ quotaSeen = FALSE
    /\ gated = {}
    /\ hist = NoHist
    /\ api = NoCall
    /\ image = NoImage
    /\ urls = NoUrls

\* the block of run r that follows the await it is suspended in
RunStep(r) ==
    \/ ImageDone(r)
    \/ ImageFails(r)
    \/ ManualWaitDone(r)
    \/ AIDone(r)
    \/ AIFails(r)
    \/ UploadDone(r)
    \/ UploadFails(r)
    \/ Tick(r)
    \/ CooldownDone(r)

SpecLive ==
    /\ LiveInit
    /\ [][Next]_vars
    /\ \A r \in RunIds : WF_vars(RunStep(r))

\* a step in which run r leaves its loop without a stop being requested
RunEndsUnstopped(r) == InFlight(r) /\ runs'[r].pc = "idle" /\ ~abortRef

\* C35: every run ends and isRunning becomes false again; when a run ends
\* without a stop, no item of its snapshot that is still in the queue has
\* status queued.
C35_NothingLeftQueued ==
    [][\A r \in RunIds :
          RunEndsUnstopped(r) =>
             \A j \in DOMAIN runs[r].queueIds :
                runs[r].queueIds[j] \in Ids(items')
                   => Find(items', runs[r].queueIds[j]).status # "queued"]_vars

\* C35 as amended: every run ends and isRunning becomes false again; when a
\* run ends without a stop, it has reached every item of its snapshot that
\* is still in the queue, and such an item has status queued only if a
\* retry command has put it back.
C35_RunTerminates ==
    /\ \A r \in RunIds : InFlight(r) ~> ~InFlight(r)
    /\ isRunning ~> ~isRunning
    /\ [][\A r \in RunIds :
             RunEndsUnstopped(r) =>
                \A j \in DOMAIN runs[r].queueIds :
                   runs[r].queueIds[j] \in Ids(items')
                      => /\ j <= runs[r].i
                         /\ \/ Find(items', runs[r].queueIds[j]).status # "queued"
                            \/ runs[r].queueIds[j] \in hist.retried]_vars

\* C35 witness: all runs have ended without a stop, one item was handled
\* and another, which failed and was retried meanwhile, is queued again.
C35_Witness ==
    /\ ~isRunning
    /\ ~abortRef
    /\ \A r \in RunIds : ~InFlight(r)
    /\ \E j, k \in DOMAIN items :
          /\ items[j].status = "queued"
          /\ items[j].id \in hist.retried
          /\ items[k].status \in {"success", "ready"}


MaxGen == 2

NoPreview == <<>>

DataUrl == <<"data">>

PreviewError == <<"error">>

Blob(h) == <<"blob", h>>

\* previewUrl?.startsWith('blob:')
IsBlob(p) == Len(p) = 2

\* the handles that the items of `its` refer to
Referred(its) ==
    {its[k].previewUrl[2] : k \in {j \in DOMAIN its : IsBlob(its[j].previewUrl)}}

\* if (p?.startsWith('blob:')) URL.revokeObjectURL(p)
Revoke(live, p) == IF IsBlob(p) THEN live \ {p[2]} ELSE live

\* the image files among the files a..b
ImagesIn(a, b) == {i \in a..b : ~FileIsPdf(i)}

\* the items of handleFileSelect: an image gets URL.createObjectURL(file)
\* at once, a PDF gets no previewUrl
NewItemsPreviews(first, n, made) ==
    [k \in 1..n |->
        LET id == first + k - 1
        IN NewItem(id, FileIsPdf(id)) @@
           [previewUrl |-> IF FileIsPdf(id) THEN NoPreview
                           ELSE Blob(made + Cardinality(ImagesIn(first, id)))]]

handleFileSelectPreviews(n) ==
    /\ ~isRunning
    /\ nextId + n <= budget.files
    /\ Len(items) + n <= MAX_BATCH_SIZE
    /\ LET new == NewItemsPreviews(nextId + 1, n, urls.made)
       IN /\ items' = items \o new
          /\ urls' = [urls EXCEPT !.made = @ + Cardinality(Referred(new)),
                                  !.live = @ \cup Referred(new)]
    /\ nextId' = nextId + n
    /\ timers' = timers + 1
    /\ hist' = [hist EXCEPT !.fresh = TRUE]
    /\ UNCHANGED <<budget, api, image, isRunning, abortRef, runs, confirms, edits, faults,
                   quotaSeen, gated>>

\* items.find(i => !i.previewUrl && i.file.type === 'application/pdf')
NeedsPreview(its) ==
    {k \in DOMAIN its : its[k].pdf /\ its[k].previewUrl = NoPreview}

\* The effect on [items]: its timeout fires on a queue it has not fired on
\* and finds a PDF without preview; convertPdfToJpeg is awaited.  A
\* generation that was started on an earlier queue is not cancelled.
GeneratorFires ==
    /\ items # urls.seen
    /\ NeedsPreview(items) # {}
    /\ LET k == CHOOSE j \in NeedsPreview(items) : \A l \in NeedsPreview(items) : j <= l
           id == items[k].id
       IN /\ urls.gen[id] < MaxGen
          /\ urls' = [urls EXCEPT !.gen[id] = @ + 1, !.seen = items]
    /\ UNCHANGED <<main, api, image>>

\* convertPdfToJpeg resolves: URL.createObjectURL(jpegFile), and the item,
\* if it is still in the queue, gets the new URL whatever it had
GeneratorDone(id) ==
    /\ urls.gen[id] > 0
    /\ LET h == urls.made + 1
       IN /\ urls' = [urls EXCEPT !.gen[id] = @ - 1, !.made = h, !.live = @ \cup {h}]
          /\ items' = MapItem(items, id, LAMBDA it : [it EXCEPT !.previewUrl = Blob(h)])
    /\ UNCHANGED <<budget, api, image, isRunning, abortRef, runs, confirms, timers, nextId, edits,
                   faults, quotaSeen, gated, hist>>

\* convertPdfToJpeg rejects: previewUrl: 'error'
GeneratorFails(id) ==
    /\ urls.gen[id] > 0
    /\ faults < budget.faults
    /\ faults' = faults + 1
    /\ urls' = [urls EXCEPT !.gen[id] = @ - 1]
    /\ items' = MapItem(items, id, LAMBDA it : [it EXCEPT !.previewUrl = PreviewError])
    /\ UNCHANGED <<budget, api, image, isRunning, abortRef, runs, confirms, timers, nextId, edits,
                   quotaSeen, gated, hist>>

\* STEP A settles: the blob that currentItem (read at the head of the
\* iteration) refers to is revoked, and the item gets the data URL
ImageDoneRevoking(r) ==
    /\ runs[r].pc = "image"
    /\ LET id == CurId(r)
           cur == runs[r].cur
           b64 == processImage(cur)
           saved == MapItem(items, id, LAMBDA it :
                        [it EXCEPT !.base64 = b64, !.previewUrl = DataUrl, !.rotation = 0])
       IN /\ urls' = [urls EXCEPT !.live = Revoke(@, cur.previewUrl)]
          /\ IF isManualDataFilled(cur.data)
             THEN Commit(r, [items |-> saved,
                             run |-> [runs[r] EXCEPT !.pc = "manualwait", !.b64 = b64,
                                                     !.manual = TRUE],
                             done |-> FALSE])
             ELSE Commit(r, [items |-> updateItemStatus(saved, id, "analyzing_ai"),
                             run |-> [runs[r] EXCEPT !.pc = "ai", !.b64 = b64],
                             done |-> FALSE])
    /\ UNCHANGED <<budget, api, image, abortRef, confirms, timers, nextId, edits, faults,
                   quotaSeen, gated>>

\* handleRemove: the removed item's blob is revoked
handleRemoveRevoking(id) ==
    /\ id \in Ids(items)
    /\ allowEditing(Find(items, id))
    /\ urls' = [urls EXCEPT !.live = Revoke(@, Find(items, id).previewUrl)]
    /\ items' = Without(items, id)
    /\ gated' = gated \ {id}
    /\ UNCHANGED <<budget, api, image, hist, isRunning, abortRef, runs, confirms, timers,
                   nextId, edits, faults, quotaSeen>>

\* prev.filter(i => i.status !== 'success')
NotSuccess(its) == SelectSeq(its, LAMBDA it : it.status # "success")

\* handleClearQueue of BatchManager.tsx: the blobs of the removed items are
\* revoked
handleClearQueueRevoking ==
    /\ ~isRunning
    /\ \E k \in DOMAIN items : items[k].status \in {"queued", "error"}
    /\ urls' = [urls EXCEPT !.live = @ \ Referred(NotSuccess(items))]
    /\ items' = OnlySuccess(items)
    /\ gated' = gated \cap Ids(OnlySuccess(items))
    /\ UNCHANGED <<budget, api, image, hist, isRunning, abortRef, runs, confirms, timers,
                   nextId, edits, faults, quotaSeen>>

\* handleClearFinished of BatchManager.tsx: the "Limpar" button is rendered
\* when !isRunning, some item is success and none is queued
handleClearFinishedRevoking ==
    /\ ~isRunning
    /\ \E k \in DOMAIN items : items[k].status = "success"
    /\ \A k \in DOMAIN items : items[k].status # "queued"
    /\ urls' = [urls EXCEPT !.live = @ \ Referred(OnlySuccess(items))]
    /\ items' = NotSuccess(items)
    /\ gated' = gated \cap Ids(NotSuccess(items))
    /\ UNCHANGED <<budget, api, image, hist, isRunning, abortRef, runs, confirms, timers,
                   nextId, edits, faults, quotaSeen>>

\* The fields are left as the Extraction Client fills them.
PreviewBudgets ==
    { [files |-> MaxFiles - 1, runs |-> MaxRuns - 1, edits |-> 0, faults |-> MaxFaults - 1] }

PreviewInit ==
    /\ budget \in PreviewBudgets
    /\ items = <<>>
    /\ isRunning = FALSE
    /\ abortRef = FALSE
    /\ runs = [r \in RunIds |-> NoRun]
    /\ confirms = {}
    /\ timers = 0
    /\ nextId = 0
    /\ edits = 0
    /\ faults = 0
    /\ quotaSeen = FALSE
    /\ gated = {}
    /\ hist = NoHist
    /\ api = NoCall
    /\ image = NoImage
    /\ urls = NoUrls

PreviewNext ==
    \/ \E n \in 1..MaxFiles : handleFileSelectPreviews(n)
    \/ GeneratorFires
    \/ \E id \in FileIds : GeneratorDone(id)
    \/ \E id \in FileIds : GeneratorFails(id)
    \/ \E r \in RunIds : StartButton(r)
    \/ \E r \in RunIds : AutoStartFires(r)
    \/ AutoStartSkipped
    \/ \E r \in RunIds : ImageDoneRevoking(r)
    \/ \E r \in RunIds : ImageFails(r)
    \/ \E r \in RunIds : AIDone(r)
    \/ \E r \in RunIds : AIFails(r)
    \/ \E r \in RunIds : UploadDone(r)
    \/ \E r \in RunIds : UploadFails(r)
    \/ \E r \in RunIds : Tick(r)
    \/ \E r \in RunIds : CooldownDone(r)
    \/ stopQueue
    \/ \E id \in FileIds : handleRemoveRevoking(id)
    \/ handleClearQueueRevoking
    \/ handleClearFinishedRevoking
    \/ \E id \in FileIds : handleRetry(id)
    \/ \E id \in FileIds : handleConfirmUpload(id)
    \/ \E c \in confirms : ConfirmDone(c)
    \/ \E c \in confirms : ConfirmFails(c)

SpecPreview == PreviewInit /\ [][PreviewNext]_vars

\* C37: every object URL that was created and not revoked is the preview of
\* an item of the queue: a handle is revoked when another preview replaces
\* it and when its item is removed, in whichever order the preview
\* generator and the run write the item's preview.
C37_HandlesReferred == urls.live \subseteq Referred(items)


\* --------------------------------------------------- the clear commands
\* src/unnamed/part_006 with its two clear buttons, both rendered when
\* !isBusy.
\* a filter that lets the analysed items go
KeepWithoutReady(its) == SelectSeq(its, LAMBDA it : it.status = "success")

\* prev.filter(i => i.status === 'success' || i.status === 'ready')
KeepDone(its) == SelectSeq(its, LAMBDA it : it.status \in {"success", "ready"})

\* handleClearQueue of part_006: the trash button is rendered when some item
\* is queued or error
AnalysisClearQueue ==
    /\ ~isBusy
    /\ \E k \in DOMAIN items : items[k].status \in {"queued", "error"}
    /\ items' = KeepDone(items)
    /\ gated' = gated \cap Ids(KeepDone(items))
    /\ UNCHANGED <<budget, aux, hist, isRunning, abortRef, runs, confirms, timers, nextId,
                   edits, faults, quotaSeen>>

\* handleClearFinished of part_006: the "Limpar" button is rendered when
\* some item is success and none is queued or ready
AnalysisClearFinished ==
    /\ ~isBusy
    /\ \E k \in DOMAIN items : items[k].status = "success"
    /\ \A k \in DOMAIN items : items[k].status \notin {"queued", "ready"}
    /\ items' = NotSuccess(items)
    /\ gated' = gated \cap Ids(NotSuccess(items))
    /\ UNCHANGED <<budget, aux, hist, isRunning, abortRef, runs, confirms, timers, nextId,
                   edits, faults, quotaSeen>>

ClearBudgets ==
    { [files |-> MaxFiles - 1, runs |-> MaxRuns - 1, edits |-> MaxEdits - 2,
       faults |-> MaxFaults - 1] }

ClearInit ==
    /\ budget \in ClearBudgets
    /\ items = <<>>
    /\ isRunning = FALSE
    /\ abortRef = FALSE
    /\ runs = [r \in RunIds |-> NoRun]
    /\ confirms = {}
    /\ timers = 0
    /\ nextId = 0
    /\ edits = 0
    /\ faults = 0
    /\ quotaSeen = FALSE
    /\ gated = {}
    /\ hist = NoHist
    /\ api = NoCall
    /\ image = NoImage
    /\ urls = NoUrls

ClearNext ==
    \/ \E n \in 1..MaxFiles : AnalysisFileSelect(n)
    \/ \E r \in RunIds : startAnalysisQueue(r)
    \/ \E r \in RunIds : AnalysisAutoStart(r)
    \/ AutoStartSkipped
    \/ \E r \in RunIds : AnalysisImageDone(r)
    \/ \E r \in RunIds : AnalysisImageFails(r)
    \/ \E r \in RunIds : AnalysisDelayDone(r)
    \/ \E r \in RunIds : AnalysisAIDone(r)
    \/ \E r \in RunIds : AnalysisAIFails(r)
    \/ \E r \in RunIds : AnalysisCooldownDone(r)
    \/ stopQueue
    \/ \E id \in FileIds : handleTogglePause(id)
    \/ \E id \in FileIds : handleRemove(id)
    \/ \E id \in FileIds : handleRetry(id)
    \/ \E r \in RunIds : handleUploadAllReady(r)
    \/ \E r \in RunIds : UploadAllDone(r)
    \/ \E r \in RunIds : UploadAllFails(r)
    \/ stopUpload
    \/ \E id \in FileIds : handleSingleUpload(id)
    \/ \E c \in confirms : SingleUploadDone(c)
    \/ \E c \in confirms : SingleUploadFails(c)
    \/ AnalysisClearQueue
    \/ AnalysisClearFinished

SpecClear == ClearInit /\ [][ClearNext]_vars

\* the step removes from the queue exactly the items whose status is in sts
RemovesExactly(sts) ==
    \A k \in DOMAIN items : (items[k].status \in sts) <=> (items[k].id \notin Ids(items'))

\* the items of the queue after the step are items of the queue before it,
\* unchanged and in the order they had
KeepsInOrder ==
    \E f \in [DOMAIN items' -> DOMAIN items] :
        /\ \A k \in DOMAIN items' : items'[k] = items[f[k]]
        /\ \A k, l \in DOMAIN items' : k < l => f[k] < f[l]

AllStatus ==
    {"queued", "processing_image", "analyzing_ai", "uploading", "ready", "paused",
     "error", "success"}

ClearFrameRevoking ==
    [][/\ handleClearFinishedRevoking => RemovesExactly({"success"}) /\ KeepsInOrder
       /\ handleClearQueueRevoking =>
              RemovesExactly(AllStatus \ {"success"}) /\ KeepsInOrder]_vars

====
